---- MODULE Spec2Model ----
(***************************************************************************)
(* Model of the clinical query engine (src/engine): the rule-based router, *)
(* the per-intent handlers over the normalized corpus, and the answer      *)
(* assembler with its citation guardrail.                                  *)
(*                                                                         *)
(* Python strings are TLA+ strings; str.lower, str.strip, "in", split and  *)
(* the regular expressions of the source are computed character by         *)
(* character.  None is written "" wherever the source reads the value      *)
(* through `x or ""`.                                                      *)
(***************************************************************************)
EXTENDS Integers, Sequences, FiniteSets, TLC

VARIABLES normalized, rq, out, llm, answer, build, retrieval, found

vars == <<normalized, rq, out, llm, answer, build, retrieval, found>>

(***************************************************************************)
(* Bounds of the model.                                                    *)
(***************************************************************************)
\* rows of one kind drawn freely from the kind's pool
MaxRows == 2
\* words of a generated question
MaxWords == 2
\* interpretation codings of an observation
MaxCodes == 2
\* encounters of a corpus the encounter handler is run on
MaxEncounters == 3
\* codings of a row whose code references are rendered
MaxCodings == 4

(***************************************************************************)
(* Python string primitives.                                               *)
(***************************************************************************)
Ch(s, i) == SubSeq(s, i, i)

UpperChars == <<"A","B","C","D","E","F","G","H","I","J","K","L","M",
                "N","O","P","Q","R","S","T","U","V","W","X","Y","Z">>
LowerChars == <<"a","b","c","d","e","f","g","h","i","j","k","l","m",
                "n","o","p","q","r","s","t","u","v","w","x","y","z">>
DigitChars == <<"0","1","2","3","4","5","6","7","8","9">>

Range(f) == {f[i] : i \in DOMAIN f}

\* a Python list: the sequence with every element evaluated
List(f) == f \o <<>>

UpperSet == Range(UpperChars)
LowerSet == Range(LowerChars)
DigitSet == Range(DigitChars)
SpaceSet == {" ", "\t", "\n", "\r"}
\* \w of the re module (ASCII part)
WordSet == UpperSet \cup LowerSet \cup DigitSet \cup {"_"}

IsUpper(c) == c \in UpperSet
IsLowerAlpha(c) == c \in LowerSet
IsAlpha(c) == c \in UpperSet \/ c \in LowerSet
IsDigit(c) == c \in DigitSet
IsSpace(c) == c \in SpaceSet
IsWordChar(c) == c \in WordSet

LowerMap == [c \in UpperSet |-> LowerChars[CHOOSE i \in DOMAIN UpperChars : UpperChars[i] = c]]
UpperMap == [c \in LowerSet |-> UpperChars[CHOOSE i \in DOMAIN LowerChars : LowerChars[i] = c]]

LowerChar(c) == IF c \in UpperSet THEN LowerMap[c] ELSE c
UpperChar(c) == IF c \in LowerSet THEN UpperMap[c] ELSE c

RECURSIVE Lower(_)
\* str.lower()
Lower(s) == IF Len(s) = 0 THEN "" ELSE LowerChar(Ch(s, 1)) \o Lower(SubSeq(s, 2, Len(s)))

RECURSIVE Upper(_)
\* str.upper()
Upper(s) == IF Len(s) = 0 THEN "" ELSE UpperChar(Ch(s, 1)) \o Upper(SubSeq(s, 2, Len(s)))

RECURSIVE LStrip(_)
LStrip(s) == IF Len(s) > 0 /\ IsSpace(Ch(s, 1)) THEN LStrip(SubSeq(s, 2, Len(s))) ELSE s

RECURSIVE RStrip(_)
RStrip(s) == IF Len(s) > 0 /\ IsSpace(Ch(s, Len(s))) THEN RStrip(SubSeq(s, 1, Len(s) - 1)) ELSE s

\* str.strip()
Strip(s) == RStrip(LStrip(s))

\* s[i:i+len(k)] == k
MatchAt(s, i, k) == i >= 1 /\ i + Len(k) - 1 <= Len(s) /\ SubSeq(s, i, i + Len(k) - 1) = k

\* k in s
Contains(k, s) == \E i \in 1..(Len(s) - Len(k) + 1) : MatchAt(s, i, k)

\* s.startswith(k)
StartsWith(s, k) == MatchAt(s, 1, k)

\* any(k in s for k in ks), ks a sequence
AnyIn(ks, s) == \E n \in DOMAIN ks : Contains(ks[n], s)

RECURSIVE JoinStr(_, _)
\* sep.join(xs)
JoinStr(sep, xs) ==
    IF Len(xs) = 0 THEN ""
    ELSE IF Len(xs) = 1 THEN xs[1]
    ELSE xs[1] \o sep \o JoinStr(sep, Tail(xs))

\* s.split(c) for a one-character separator: the pieces between the
\* occurrences of c, in order
Split(s, c) ==
    LET Piece(seps, k) ==
            LET Nth(m) == CHOOSE p \in seps : Cardinality({q \in seps : q < p}) = m - 1
            IN SubSeq(s, IF k = 1 THEN 1 ELSE Nth(k - 1) + 1,
                         IF k = Cardinality(seps) + 1 THEN Len(s) ELSE Nth(k) - 1)
        Pieces(seps) == [k \in 1..(Cardinality(seps) + 1) |-> Piece(seps, k)] \o <<>>
    IN Pieces({i \in 1..Len(s) : Ch(s, i) = c})

(***************************************************************************)
(* Regular-expression fragments used by the router (re.search on ASCII).   *)
(***************************************************************************)
\* \b before position i, where s[i] is a word character
WordStart(s, i) == i = 1 \/ ~IsWordChar(Ch(s, i - 1))
\* \b after position j, where s[j] is a word character
WordEnd(s, j) == j = Len(s) \/ ~IsWordChar(Ch(s, j + 1))

\* first position at or after i that is not whitespace (Len(s)+1 if none)
RECURSIVE SkipSpace(_, _)
SkipSpace(s, i) == IF i <= Len(s) /\ IsSpace(Ch(s, i)) THEN SkipSpace(s, i + 1) ELSE i

\* w1\s+w2\s+...wn matched at position i: index of its last character, 0 if no match
RECURSIVE PhraseEnd(_, _, _)
PhraseEnd(s, i, parts) ==
    IF ~MatchAt(s, i, parts[1]) THEN 0
    ELSE LET j == i + Len(parts[1]) - 1
         IN IF Len(parts) = 1 THEN j
            ELSE IF j + 1 <= Len(s) /\ IsSpace(Ch(s, j + 1))
                 THEN PhraseEnd(s, SkipSpace(s, j + 1), Tail(parts))
                 ELSE 0

\* re.search(r"\b(p1|p2|...)\b", s), each alternative a phrase w1\s+w2...
SearchWords(alts, s) ==
    \E n \in DOMAIN alts : \E i \in 1..Len(s) :
        /\ WordStart(s, i)
        /\ PhraseEnd(s, i, alts[n]) # 0
        /\ WordEnd(s, PhraseEnd(s, i, alts[n]))

\* re.search(r"\bprefix", s) and re.search(r"\bprefix\w*\b", s)
SearchPrefix(prefix, s) == \E i \in 1..Len(s) : WordStart(s, i) /\ MatchAt(s, i, prefix)

(***************************************************************************)
(* Query router (src/engine/query_router.py).                              *)
(***************************************************************************)
PAT_ALLERGY == << <<"allergy">>, <<"allergies">>, <<"allergic">>, <<"anaphylaxis">>,
                  <<"rash">>, <<"hives">> >>

PAT_ENCOUNTER == << <<"encounter">>, <<"visit">>, <<"appointment">>,
                    <<"urgent", "care">>, <<"emergency", "room">>, <<"er">> >>

PAT_LABS == << <<"lab">>, <<"labs">>, <<"result">>, <<"results">>, <<"observation">>,
               <<"loinc">>, <<"creatinine">>, <<"egfr">>, <<"bun">>, <<"renal">>,
               <<"kidney">>, <<"a1c">>, <<"hba1c">> >>

PAT_MED == << <<"medication">>, <<"medications">>, <<"drug">>, <<"drugs">>,
              <<"prescription">>, <<"taking">> >>

PAT_CONDITION == << <<"diagnosis">>, <<"condition">>, <<"history", "of">>,
                    <<"diagnosed", "with">>, <<"does", "the", "patient", "have">>,
                    <<"do", "they", "have">> >>

\* the character class [a-z0-9\-\s] of the entity group
IsEntityChar(c) == IsLowerAlpha(c) \/ IsDigit(c) \/ c = "-" \/ IsSpace(c)
IsEntityEnd(s, e) == e = Len(s) + 1 \/ Ch(s, e) \in {"?", ".", ","}

\* first position at or after i whose character is outside the entity class
RECURSIVE EntityRunEnd(_, _)
EntityRunEnd(s, i) ==
    IF i <= Len(s) /\ IsEntityChar(Ch(s, i)) THEN EntityRunEnd(s, i + 1) ELSE i

\* keyword\s+([a-z0-9\-\s]+?)(\?|\.|,|$) matched with the keyword at position i:
\* <<group 1>> or <<>>.  The group is lazy and the class excludes the
\* terminators, so it ends at the first character outside the class.
EntityAt(s, i, keyword) ==
    LET w == PhraseEnd(s, i, keyword)
        e == EntityRunEnd(s, w + 2)
    IN IF /\ w # 0
          /\ w + 1 <= Len(s)
          /\ IsSpace(Ch(s, w + 1))
          /\ e >= w + 3
          /\ IsEntityEnd(s, e)
       THEN <<SubSeq(s, w + 2, e - 1)>>
       ELSE <<>>

\* re.search over the alternatives of one pattern: leftmost match, <<group 1>> or <<>>
EntitySearch(s, keywords) ==
    LET hits == {i \in 1..Len(s) : \E n \in DOMAIN keywords : EntityAt(s, i, keywords[n]) # <<>>}
    IN IF hits = {} THEN <<>>
       ELSE LET i == CHOOSE h \in hits : \A g \in hits : h <= g
                n == CHOOSE m \in DOMAIN keywords :
                        /\ EntityAt(s, i, keywords[m]) # <<>>
                        /\ \A l \in 1..(m - 1) : EntityAt(s, i, keywords[l]) = <<>>
            IN EntityAt(s, i, keywords[n])

_extract_entity(ql) ==
    LET m1 == EntitySearch(ql, << <<"have">>, <<"diagnosed", "with">> >>)
        m2 == EntitySearch(ql, << <<"for">> >>)
    IN IF m1 # <<>> THEN Strip(m1[1])
       ELSE IF m2 # <<>> THEN Strip(m2[1])
       ELSE ""

Intents == {"avoid_allergies", "diabetes_complications", "allergy", "encounter",
            "labs", "medication", "condition", "fallback"}

RuleAvoid(ql) == (SearchPrefix("avoid", ql) \/ SearchPrefix("contraindicat", ql))
                 /\ SearchPrefix("allerg", ql)
RuleDiabetes(ql) == SearchWords(<< <<"complication">>, <<"complications">> >>, ql)
                    /\ SearchWords(<< <<"diabetes">>, <<"diabetic">> >>, ql)

RoutedQuery(intent, entity, raw) == [intent |-> intent, entity |-> entity, raw |-> raw]

\* the intent of the mutated router below: the trailing return is missing
ClassifyNoDefault(ql) ==
    IF RuleAvoid(ql) THEN "avoid_allergies"
    ELSE IF RuleDiabetes(ql) THEN "diabetes_complications"
    ELSE IF SearchWords(PAT_ALLERGY, ql) THEN "allergy"
    ELSE IF SearchWords(PAT_ENCOUNTER, ql) THEN "encounter"
    ELSE IF SearchWords(PAT_LABS, ql) THEN "labs"
    ELSE IF SearchWords(PAT_MED, ql) THEN "medication"
    ELSE IF SearchWords(PAT_CONDITION, ql) THEN "condition"
    ELSE "None"

\* the intent of the mutated router below: the labs rule is tried before the encounter rule
ClassifyLabsFirst(ql) ==
    IF RuleAvoid(ql) THEN "avoid_allergies"
    ELSE IF RuleDiabetes(ql) THEN "diabetes_complications"
    ELSE IF SearchWords(PAT_ALLERGY, ql) THEN "allergy"
    ELSE IF SearchWords(PAT_LABS, ql) THEN "labs"
    ELSE IF SearchWords(PAT_ENCOUNTER, ql) THEN "encounter"
    ELSE IF SearchWords(PAT_MED, ql) THEN "medication"
    ELSE IF SearchWords(PAT_CONDITION, ql) THEN "condition"
    ELSE "fallback"

\* the chain of if ... return of route: the intent of the first rule that matches
Classify(ql) ==
    IF RuleAvoid(ql) THEN "avoid_allergies"
    ELSE IF RuleDiabetes(ql) THEN "diabetes_complications"
    ELSE IF SearchWords(PAT_ALLERGY, ql) THEN "allergy"
    ELSE IF SearchWords(PAT_ENCOUNTER, ql) THEN "encounter"
    ELSE IF SearchWords(PAT_LABS, ql) THEN "labs"
    ELSE IF SearchWords(PAT_MED, ql) THEN "medication"
    ELSE IF SearchWords(PAT_CONDITION, ql) THEN "condition"
    ELSE "fallback"

route(query) ==
    LET Routed(ql) == RoutedQuery(Classify(ql), _extract_entity(ql), query)
    IN Routed(Lower(Strip(query)))

(***************************************************************************)
(* Coding helpers (src/engine/handlers.py).                                *)
(***************************************************************************)
\* None is written ""
_coding_label(system) ==
    LET Label(s) ==
            IF Contains("loinc", s) \/ s = "http://loinc.org" THEN "LOINC"
            ELSE IF Contains("snomed", s) \/ Contains("snomed.info/sct", s) THEN "SNOMED"
            ELSE IF Contains("icd-10", s) \/ Contains("icd10", s) THEN "ICD-10"
            ELSE IF Contains("icd-9", s) \/ Contains("icd9", s) THEN "ICD-9"
            ELSE IF Contains("rxnorm", s) \/ Contains("nlm.nih.gov/research/umls/rxnorm", s) THEN "RxNorm"
            ELSE IF Contains("cpt", s) THEN "CPT"
            ELSE ""
    IN IF system = "" THEN "" ELSE Label(Strip(Lower(system)))

_parse_coding_triplet(coding) ==
    LET Triplet(parts) ==
            <<Strip(parts[1]),
              Strip(IF Len(parts) > 1 THEN parts[2] ELSE ""),
              Strip(IF Len(parts) > 2 THEN parts[3] ELSE "")>>
    IN Triplet(Split(coding, "|"))

\* A dict is a sequence of [label, codes] entries in insertion order.
RefsGet(refs, label) ==
    IF \E n \in DOMAIN refs : refs[n].label = label
    THEN refs[CHOOSE n \in DOMAIN refs : refs[n].label = label].codes
    ELSE <<>>

RefsHas(refs, label) == \E n \in DOMAIN refs : refs[n].label = label

\* out.setdefault(label, []); if code not in out[label]: out[label].append(code)
RefsAdd(refs, label, code) ==
    IF RefsHas(refs, label)
    THEN [n \in DOMAIN refs |->
            IF refs[n].label = label /\ code \notin Range(refs[n].codes)
            THEN [label |-> label, codes |-> Append(refs[n].codes, code)]
            ELSE refs[n]]
    ELSE Append(refs, [label |-> label, codes |-> <<code>>])

RECURSIVE ExtractRefsFrom(_, _)
ExtractRefsFrom(codings, refs) ==
    LET Labelled(code, label) ==
            IF code = "" \/ label = ""
            THEN ExtractRefsFrom(Tail(codings), refs)
            ELSE ExtractRefsFrom(Tail(codings), RefsAdd(refs, label, code))
        Step(t) == Labelled(t[2], _coding_label(t[1]))
    IN IF Len(codings) = 0 THEN refs
       ELSE Step(_parse_coding_triplet(Head(codings)))

_extract_code_refs(codings) == ExtractRefsFrom(codings, <<>>)

\* codes kept per code system in a rendered reference
CodesPerSystem == 3

\* mutation of FirstN: nothing is cut
NotCut(xs, n) == xs

FirstN(xs, n) == SubSeq(xs, 1, IF Len(xs) < n THEN Len(xs) ELSE n)

_format_code_refs(codings, prefer) ==
    LET Render(refs) ==
            LET InRefs(k) == RefsHas(refs, k) /\ RefsGet(refs, k) # <<>>
                NotPreferred(e) == e.label \notin Range(prefer) /\ e.codes # <<>>
                Parts(first, rest) ==
                    [n \in DOMAIN first |->
                        first[n] \o ": " \o JoinStr(", ", FirstN(RefsGet(refs, first[n]), CodesPerSystem))]
                    \o [n \in DOMAIN rest |->
                        rest[n].label \o ": " \o JoinStr(", ", FirstN(rest[n].codes, CodesPerSystem))]
            IN IF refs = <<>> THEN ""
               ELSE JoinStr("; ", Parts(SelectSeq(prefer, InRefs), SelectSeq(refs, NotPreferred)))
    IN Render(_extract_code_refs(codings))

(***************************************************************************)
(* Answer formatting and date ranking.                                     *)
(***************************************************************************)
NotFound == "Not found in provided records."

\* mutation of Uniq: every source is kept, repeated or not
KeepAll(sources, acc) == acc \o sources

RECURSIVE Uniq(_, _)
\* order-preserving de-duplication of the non-empty entries
Uniq(sources, acc) ==
    IF Len(sources) = 0 THEN acc
    ELSE IF Head(sources) # "" /\ Head(sources) \notin Range(acc)
         THEN Uniq(Tail(sources), Append(acc, Head(sources)))
         ELSE Uniq(Tail(sources), acc)

format_answer(lines, sources) ==
    IF lines = <<>> THEN NotFound
    ELSE JoinStr("\n", lines \o <<"", "Source: " \o JoinStr(", ", Uniq(sources, <<>>))>>)

DigitValue == [c \in DigitSet |-> CHOOSE d \in 0..9 : DigitChars[d + 1] = c]

RECURSIVE ToInt(_)
\* int() of a string of decimal digits
ToInt(s) ==
    IF Len(s) = 0 THEN 0
    ELSE 10 * ToInt(SubSeq(s, 1, Len(s) - 1))
         + DigitValue[Ch(s, Len(s))]

AllDigits(s) == \A i \in 1..Len(s) : IsDigit(Ch(s, i))

\* days between 1970-01-01 and the civil date y-m-d (proleptic Gregorian)
DaysFromCivil(y, m, d) ==
    LET yy == IF m <= 2 THEN y - 1 ELSE y
        era == yy \div 400
        yoe == yy - era * 400
        mp == IF m > 2 THEN m - 3 ELSE m + 9
        doy == (153 * mp + 2) \div 5 + d - 1
        doe == yoe * 365 + yoe \div 4 - yoe \div 100 + doy
    IN era * 146097 + doe - 719468

IsLeap(y) == y % 4 = 0 /\ (y % 100 # 0 \/ y % 400 = 0)
DaysInMonth(y, m) ==
    IF m = 2 THEN (IF IsLeap(y) THEN 29 ELSE 28)
    ELSE IF m \in {4, 6, 9, 11} THEN 30 ELSE 31

\* dtparser.parse(v).timestamp() for the forms "YYYY-MM-DD" and
\* "YYYY-MM-DDThh:mm:ss" (what _best_date stores), process time zone UTC:
\* <<seconds>>, or <<>> where the parser raises.
ParseTimestamp(v) ==
    LET dateOk == /\ Len(v) \in {10, 19}
                  /\ AllDigits(SubSeq(v, 1, 4)) /\ Ch(v, 5) = "-"
                  /\ AllDigits(SubSeq(v, 6, 7)) /\ Ch(v, 8) = "-"
                  /\ AllDigits(SubSeq(v, 9, 10))
                  /\ ToInt(SubSeq(v, 6, 7)) \in 1..12
                  /\ ToInt(SubSeq(v, 9, 10))
                        \in 1..DaysInMonth(ToInt(SubSeq(v, 1, 4)), ToInt(SubSeq(v, 6, 7)))
        timeOk == \/ Len(v) = 10
                  \/ /\ Ch(v, 11) = "T"
                     /\ AllDigits(SubSeq(v, 12, 13)) /\ Ch(v, 14) = ":"
                     /\ AllDigits(SubSeq(v, 15, 16)) /\ Ch(v, 17) = ":"
                     /\ AllDigits(SubSeq(v, 18, 19))
                     /\ ToInt(SubSeq(v, 12, 13)) \in 0..23
                     /\ ToInt(SubSeq(v, 15, 16)) \in 0..59
                     /\ ToInt(SubSeq(v, 18, 19)) \in 0..59
        days == DaysFromCivil(ToInt(SubSeq(v, 1, 4)), ToInt(SubSeq(v, 6, 7)), ToInt(SubSeq(v, 9, 10)))
        secs == IF Len(v) = 10 THEN 0
                ELSE 3600 * ToInt(SubSeq(v, 12, 13)) + 60 * ToInt(SubSeq(v, 15, 16))
                     + ToInt(SubSeq(v, 18, 19))
    IN IF dateOk /\ timeOk THEN <<days * 86400 + secs>> ELSE <<>>

\* the value given to a missing or unparseable date
NoDate == -1

parse_dt(v) ==
    IF v = "" THEN NoDate
    ELSE IF ParseTimestamp(v) = <<>> THEN NoDate
    ELSE ParseTimestamp(v)[1]

\* sorted(..., reverse=True) on a sequence of keys: the permutation it applies.
\* The sort is stable, and reverse=True keeps the input order of equal keys.
SortedDescending(keys) ==
    LET ks == List(keys)
        rank == List([i \in DOMAIN ks |->
                    1 + Cardinality({j \in DOMAIN ks : ks[j] > ks[i] \/ (ks[j] = ks[i] /\ j < i)})])
    IN List([p \in DOMAIN ks |-> CHOOSE i \in DOMAIN ks : rank[i] = p])

\* the rows in the order of a permutation
Permute(rows, perm) == List([p \in DOMAIN rows |-> rows[perm[p]]])

_sort_by_date(rows, key) ==
    Permute(rows, SortedDescending([i \in DOMAIN rows |-> parse_dt(rows[i][key])]))

(***************************************************************************)
(* Handlers (src/engine/handlers.py).  A handler returns                   *)
(* [facts |-> sequence of [source, text], answer |-> string].              *)
(***************************************************************************)
HandlerOut(facts, ans) == [facts |-> facts, answer |-> ans]
\* mutation of Fact: the source is taken from the wrong value
FactMiscited(source, text) == [source |-> text, text |-> text]

Fact(source, text) == [source |-> source, text |-> text]
Empty == HandlerOut(<<>>, NotFound)

\* x or y on strings
Or(x, y) == IF x # "" THEN x ELSE y
\* line += f"<prefix>{v}<suffix>" if v
Opt(prefix, v, suffix) == IF v # "" THEN prefix \o v \o suffix ELSE ""

Sources(facts) == List([n \in DOMAIN facts |-> facts[n].source])
Texts(facts) == List([n \in DOMAIN facts |-> facts[n].text])

\* [f(x) for x in xs]
Map(xs, F(_)) == List([n \in DOMAIN xs |-> F(xs[n])])
\* xs or ys on lists
OrElse(xs, ys) == IF xs # <<>> THEN xs ELSE ys
\* {"facts": facts, "answer": format_answer(lines, sources)}, a line and a source per fact
Report(facts) == HandlerOut(facts, format_answer(Texts(facts), Sources(facts)))

\* mutation of ConditionLine: the code references are left out
ConditionLineBare(c, ent) ==
    (IF ent # "" THEN "The patient has " ELSE "Condition: ")
    \o Or(c.text, "Unknown condition")
    \o Opt(" recorded on ", Or(c.recorded, c.onset), "")

ConditionLine(c, ent) ==
    (IF ent # "" THEN "The patient has " ELSE "Condition: ")
    \o Or(c.text, "Unknown condition")
    \o Opt(" (", _format_code_refs(c.codings, <<"ICD-10", "SNOMED", "ICD-9">>), ")")
    \o Opt(" recorded on ", Or(c.recorded, c.onset), "")

\* mutation of ConditionMatches: without a match every condition is used
ConditionMatchesOrAll(conditions, ent) ==
    LET Hit(c) == Contains(ent, Lower(c.text)) \/ Contains(ent, Lower(JoinStr(" ", c.codings)))
    IN IF ent # "" /\ SelectSeq(conditions, Hit) # <<>> THEN SelectSeq(conditions, Hit) ELSE conditions

\* the conditions kept by the entity filter
ConditionMatches(conditions, ent) ==
    LET Hit(c) == Contains(ent, Lower(c.text)) \/ Contains(ent, Lower(JoinStr(" ", c.codings)))
    IN IF ent # "" THEN SelectSeq(conditions, Hit) ELSE conditions

handle_condition(idx, entity) ==
    LET ent == Lower(Strip(entity))
        Line(c) == Fact(c.source, ConditionLine(c, ent))
        Answer(matches) ==
            IF matches = <<>> THEN Empty
            ELSE Report(Map(_sort_by_date(matches, "recorded"), Line))
    IN IF idx.conditions = <<>> THEN Empty
       ELSE Answer(ConditionMatches(idx.conditions, ent))

NotCurrent == {"stopped", "entered-in-error"}
IsCurrent(m) == Lower(m.status) \notin NotCurrent

MedicationLine(m) ==
    "Medication: " \o Or(m.text, "Unknown medication")
    \o Opt(" (", _format_code_refs(m.codings, <<"RxNorm", "SNOMED">>), ")")
    \o Opt("; dosage: ", m.dosageText, "")
    \o Opt("; indication: ", m.reason, "")
    \o Opt("; date: ", m.effective, "")

\* mutation of handle_medications: stopped and entered-in-error medications are kept
MedicationsKeepStopped(idx, entity) ==
    LET meds == idx.medications
        ent == Lower(Strip(entity))
        ByReason(m) == Contains(ent, Lower(m.reason))
        ByText(m) == Contains(ent, Lower(m.text))
        filtered == IF ent = "" THEN <<>>
                    ELSE OrElse(SelectSeq(meds, ByReason), SelectSeq(meds, ByText))
        Line(m) == Fact(m.source, MedicationLine(m))
    IN IF meds = <<>> THEN Empty
       ELSE Report(Map(_sort_by_date(OrElse(filtered, meds), "effective"), Line))

handle_medications(idx, entity) ==
    LET meds == idx.medications
        ent == Lower(Strip(entity))
        ByReason(m) == Contains(ent, Lower(m.reason))
        ByText(m) == Contains(ent, Lower(m.text))
        filtered == IF ent = "" THEN <<>>
                    ELSE OrElse(SelectSeq(meds, ByReason), SelectSeq(meds, ByText))
        Current(use_list) == OrElse(SelectSeq(use_list, IsCurrent), use_list)
        Line(m) == Fact(m.source, MedicationLine(m))
    IN IF meds = <<>> THEN Empty
       ELSE Report(Map(_sort_by_date(Current(OrElse(filtered, meds)), "effective"), Line))

AllergyLine(name, a) ==
    "Allergy: " \o name
    \o Opt(" (", _format_code_refs(a.codings, <<"SNOMED", "RxNorm">>), ")")
    \o Opt("; reaction: ", a.reactions, "")

handle_allergies(idx) ==
    LET Line(a) == Fact(a.source, AllergyLine(Or(a.text, "Unknown allergen"), a))
    IN IF idx.allergies = <<>> THEN Empty
       ELSE Report(Map(idx.allergies, Line))

\* encounters reported
EncounterCap == 2

EncounterLine(e) ==
    (IF e.start # "" THEN "Encounter on " \o e.start \o ": " ELSE "Encounter: ")
    \o Or(e.type, "Unknown encounter")
    \o Opt("; reason: ", e.reason, "")

handle_encounters(idx) ==
    LET Line(e) == Fact(e.source, EncounterLine(e))
    IN IF idx.encounters = <<>> THEN Empty
       ELSE Report(Map(FirstN(_sort_by_date(idx.encounters, "start"), EncounterCap), Line))

\* allergen -> medication keywords, in the dict's order
allergen_keywords ==
    << [k |-> "penicillin",
        kws |-> <<"penicillin", "amoxicillin", "ampicillin", "piperacillin", "ticarcillin",
                  "nafcillin", "oxacillin", "dicloxacillin">>],
       [k |-> "sulfonamide",
        kws |-> <<"sulfonamide", "sulfa", "sulfameth", "sulfadiazine", "sulfisoxazole",
                  "bactrim", "septra", "trimethoprim-sulfamethoxazole">>],
       [k |-> "iodinated contrast",
        kws |-> <<"iodinated", "contrast", "iohexol", "iopamidol", "ioversol", "iothalamate">>] >>

MedRelatedWords == <<"penicillin", "sulfon", "drug", "antibiotic", "contrast", "iodin">>

is_med_related(a) == AnyIn(MedRelatedWords, Lower(Strip(a.text)))

\* the statement built for one named allergy in the first loop
AllergyStatement(a) ==
    IF is_med_related(a)
    THEN "Avoid medications in the " \o Strip(a.text) \o " class due to recorded allergy"
         \o Opt(" (", _format_code_refs(a.codings, <<"SNOMED", "RxNorm">>), ")")
         \o Opt("; reaction: ", a.reactions, "")
    ELSE AllergyLine(Strip(a.text), a)

RECURSIVE FlattenKeys(_, _)
\* keys: the keyword lists of every allergen named in a_name, then a_name itself
FlattenKeys(table, a_name) ==
    IF Len(table) = 0 THEN <<a_name>>
    ELSE (IF Contains(Head(table).k, a_name) THEN Head(table).kws ELSE <<>>)
         \o FlattenKeys(Tail(table), a_name)

\* any(kw and kw in med_name for kw in keys)
Conflicts(m, a) ==
    LET keys == FlattenKeys(allergen_keywords, Lower(a.text))
    IN /\ Lower(m.text) # ""
       /\ Lower(a.text) # ""
       /\ \E n \in DOMAIN keys : keys[n] # "" /\ Contains(keys[n], Lower(m.text))

AvoidLine(m, a) ==
    "Avoid " \o Or(m.text, "this medication")
    \o Opt(" (", _format_code_refs(m.codings, <<"RxNorm", "SNOMED">>), ")")
    \o " due to allergy to " \o Or(a.text, "recorded allergen")
    \o Opt(" (", _format_code_refs(a.codings, <<"SNOMED", "RxNorm">>), ")")

RECURSIVE Flatten(_)
Flatten(xss) == IF Len(xss) = 0 THEN <<>> ELSE Head(xss) \o Flatten(Tail(xss))

RECURSIVE AppendNew(_, _)
\* for t in texts: if t not in lines: lines.append(t)
AppendNew(lines, texts) ==
    IF Len(texts) = 0 THEN lines
    ELSE IF Head(texts) \in Range(lines) THEN AppendNew(lines, Tail(texts))
    ELSE AppendNew(Append(lines, Head(texts)), Tail(texts))

\* zip(xs, ys)
Zip(xs, ys) ==
    [n \in 1..(IF Len(xs) < Len(ys) THEN Len(xs) ELSE Len(ys)) |-> <<xs[n], ys[n]>>]

\* sources listed in the "No current medications (...)" statement
PreviewCap == 6

\* mutation of handle_avoid_due_to_allergies: the allergies are reported whatever the medications
AvoidAsAllergies(idx) == handle_allergies(idx)

handle_avoid_due_to_allergies(idx) ==
    LET meds == idx.medications
        alls == idx.allergies
        HasSource(m) == m.source # ""
        SourceOf(m) == m.source
        Named(a) == Strip(a.text) # ""
        Statement(a) == Fact(a.source, AllergyStatement(a))
        \* for m in meds: for a in alls: ...
        pairs == [k \in 1..(Len(meds) * Len(alls)) |->
                    [m |-> meds[((k - 1) \div Len(alls)) + 1], a |-> alls[((k - 1) % Len(alls)) + 1]]]
        IsConflict(pr) == Conflicts(pr.m, pr.a)
        ConflictLine(pr) == AvoidLine(pr.m, pr.a)
        ConflictSources(pr) == <<pr.m.source, pr.a.source>>
        ZipFacts(zipped) == [n \in DOMAIN zipped |-> Fact(zipped[n][1], zipped[n][2])]
        Preview(srcs) == JoinStr(", ", FirstN(srcs, PreviewCap))
                         \o (IF Len(srcs) > PreviewCap THEN "..." ELSE "")
        Headline(med_src_preview) ==
            IF med_src_preview # ""
            THEN "No current medications (" \o med_src_preview
                 \o ") directly match recorded medication allergies."
            ELSE "No current medications directly match recorded medication allergies."
        Conflicting(matched_lines, matched_sources, allergy_facts) ==
            HandlerOut(ZipFacts(Zip(matched_sources, matched_lines)) \o allergy_facts,
                       format_answer(AppendNew(matched_lines, Texts(allergy_facts)),
                                     matched_sources \o Sources(allergy_facts)))
        NoConflict(allergy_facts, avoid_recs, current_med_sources) ==
            IF avoid_recs = <<>> THEN handle_allergies(idx)
            ELSE HandlerOut(allergy_facts,
                            format_answer(<<Headline(Preview(current_med_sources))>> \o avoid_recs,
                                          Sources(allergy_facts) \o current_med_sources))
        Decide(matched, named) ==
            IF matched # <<>>
            THEN Conflicting(Map(matched, ConflictLine), Flatten(Map(matched, ConflictSources)),
                             Map(named, Statement))
            ELSE NoConflict(Map(named, Statement),
                            Map(SelectSeq(named, is_med_related), AllergyStatement),
                            Map(SelectSeq(SelectSeq(meds, IsCurrent), HasSource), SourceOf))
    IN IF alls = <<>> THEN Empty
       ELSE Decide(SelectSeq(pairs, IsConflict), SelectSeq(alls, Named))

FlagCodes == {"H", "HH", "L", "LL", "A", "AA"}

\* mutation of _is_abnormal: the interpretation text is searched before the codes
TextBeforeCodes(interpretation_text, interpretation_codings) ==
    LET Code(c) == Upper(_parse_coding_triplet(c)[2])
        Judge(codes, t) ==
            IF AnyIn(<<"high", "elevated", "above">>, t) THEN "High"
            ELSE IF AnyIn(<<"low", "below">>, t) THEN "Low"
            ELSE IF Contains("normal", t) THEN "Normal"
            ELSE IF codes \cap FlagCodes # {}
            THEN (IF "H" \in codes \/ "HH" \in codes THEN "High"
                  ELSE IF "L" \in codes \/ "LL" \in codes THEN "Low"
                  ELSE "Abnormal")
            ELSE ""
    IN Judge(Range(Map(interpretation_codings, Code)) \ {""}, Lower(interpretation_text))

\* "High" / "Low" / "Abnormal" / "Normal", None written ""
_is_abnormal(interpretation_text, interpretation_codings) ==
    LET Code(c) == Upper(_parse_coding_triplet(c)[2])
        Judge(codes, t) ==
            IF codes \cap FlagCodes # {}
            THEN (IF "H" \in codes \/ "HH" \in codes THEN "High"
                  ELSE IF "L" \in codes \/ "LL" \in codes THEN "Low"
                  ELSE "Abnormal")
            ELSE IF AnyIn(<<"high", "elevated", "above">>, t) THEN "High"
            ELSE IF AnyIn(<<"low", "below">>, t) THEN "Low"
            ELSE IF Contains("normal", t) THEN "Normal"
            ELSE ""
    IN Judge(Range(Map(interpretation_codings, Code)) \ {""}, Lower(interpretation_text))

target_terms == <<"hba1c", "a1c", "hemoglobin a1c", "creatinine", "egfr", "bun", "urea",
                  "renal", "kidney", "cholesterol", "glucose", "blood pressure", "bmi">>

\* facts reported by the labs handler
LabsCap == 10

obs_ts(o) == parse_dt(Or(o.effective, o.issued))

\* the grouping key of an observation
ObsKey(o) ==
    LET Key(loinc) ==
            IF loinc # <<>> /\ loinc[1] # "" THEN "LOINC:" \o loinc[1] ELSE "NAME:" \o Lower(o.text)
    IN Key(RefsGet(_extract_code_refs(o.codings), "LOINC"))

\* prev is None or ts > obs_ts(prev)
Replaces(o, prev) == obs_ts(o) > obs_ts(prev)

RECURSIVE BestByKey(_, _)
\* best_by_key as a sequence of [key, o] entries in insertion order
BestByKey(obs_use, best) ==
    LET Put(o, key) ==
            IF \A n \in DOMAIN best : best[n].key # key
            THEN Append(best, [key |-> key, o |-> o])
            ELSE [n \in DOMAIN best |->
                    IF best[n].key = key /\ Replaces(o, best[n].o)
                    THEN [key |-> key, o |-> o] ELSE best[n]]
    IN IF Len(obs_use) = 0 THEN best
       ELSE BestByKey(Tail(obs_use), Put(Head(obs_use), ObsKey(Head(obs_use))))

\* the em dash of the source is written "--"
LabLine(o) ==
    LET Flag(interp_label) ==
            IF interp_label \in {"High", "Low", "Abnormal"} THEN " -- abnormal (" \o interp_label \o ")"
            ELSE IF interp_label = "Normal" THEN " -- normal" ELSE ""
    IN "The most recent " \o Or(o.text, "Unknown test")
       \o Opt(" (", _format_code_refs(o.codings, <<"LOINC">>), ")")
       \o Opt(" value is ", o.value, "")
       \o Flag(_is_abnormal(o.interpretation, o.interpretationCodings))
       \o Opt("; date: ", Or(o.effective, o.issued), "")

\* obs_use: the observations left by the lab terms named in the query
ObsUse(obs, query_text) ==
    LET InQuery(t) == Contains(t, Lower(query_text))
        Narrow(want_terms) ==
            LET Wanted(o) == \/ AnyIn(want_terms, Lower(o.text))
                             \/ AnyIn(want_terms, Lower(JoinStr(" ", o.codings)))
            IN IF want_terms # <<>> THEN SelectSeq(obs, Wanted) ELSE obs
    IN Narrow(SelectSeq(target_terms, InQuery))

handle_labs(idx, query_text) ==
    LET Line(o) == Fact(o.source, LabLine(o))
        Value(e) == e.o
        Selected(values) ==
            FirstN(Permute(values, SortedDescending(Map(values, obs_ts))), LabsCap)
        Answer(obs_use) ==
            IF obs_use = <<>> THEN Empty
            ELSE Report(Map(Selected(Map(BestByKey(obs_use, <<>>), Value)), Line))
    IN IF idx.observations = <<>> THEN Empty
       ELSE Answer(ObsUse(idx.observations, query_text))

diabetes_markers == <<"diabetes", "diabetic">>
icd_diabetes_prefixes == <<"E10", "E11", "E13">>
complication_keywords ==
    <<"neuropathy", "retinopathy", "nephropathy", "kidney", "ckd", "chronic kidney",
      "ulcer", "foot", "amac", "macular", "microvascular", "macrovascular", "gastroparesis">>

is_diabetes(c) ==
    LET icd == RefsGet(_extract_code_refs(c.codings), "ICD-10")
    IN \/ AnyIn(diabetes_markers, Lower(c.text))
       \/ \E n \in DOMAIN icd : \E k \in DOMAIN icd_diabetes_prefixes :
             StartsWith(Upper(icd[n]), icd_diabetes_prefixes[k])

ComplicationLine(c) ==
    "Diabetes-related complication: " \o Or(c.text, "Unknown condition")
    \o Opt(" (", _format_code_refs(c.codings, <<"ICD-10", "SNOMED">>), ")")
    \o Opt(" recorded on ", Or(c.recorded, c.onset), "")

\* mutation of handle_diabetes_complications: has_diabetes is not consulted
ComplicationsUnchecked(idx) ==
    LET conditions == idx.conditions
        Line(c) == Fact(c.source, ComplicationLine(c))
        IsComplication(c) ==
            \/ AnyIn(diabetes_markers, Lower(c.text))
            \/ AnyIn(complication_keywords, Lower(c.text))
        Answer(complications) ==
            IF complications = <<>> THEN Empty
            ELSE Report(Map(_sort_by_date(complications, "recorded"), Line))
    IN IF conditions = <<>> THEN Empty
       ELSE Answer(SelectSeq(conditions, IsComplication))

handle_diabetes_complications(idx) ==
    LET conditions == idx.conditions
        Line(c) == Fact(c.source, ComplicationLine(c))
        Select(has_diabetes) ==
            LET IsComplication(c) ==
                    \/ AnyIn(diabetes_markers, Lower(c.text))
                    \/ has_diabetes /\ AnyIn(complication_keywords, Lower(c.text))
            IN SelectSeq(conditions, IsComplication)
        Answer(complications) ==
            IF complications = <<>> THEN Empty
            ELSE Report(Map(_sort_by_date(complications, "recorded"), Line))
    IN IF conditions = <<>> THEN Empty
       ELSE Answer(Select(\E n \in DOMAIN conditions : is_diabetes(conditions[n])))

(***************************************************************************)
(* Answer assembler and guardrail (src/engine/query_engine.py).            *)
(***************************************************************************)
\* code-point order of the characters that occur in sources
CodeOrder == <<" ", "-", ".", "/">> \o DigitChars \o UpperChars \o <<"_">> \o LowerChars
OrdMap == [c \in Range(CodeOrder) |-> CHOOSE i \in DOMAIN CodeOrder : CodeOrder[i] = c]
Ord(c) == OrdMap[c]

RECURSIVE StrLess(_, _)
\* a < b on str
StrLess(a, b) ==
    IF Len(b) = 0 THEN FALSE
    ELSE IF Len(a) = 0 THEN TRUE
    ELSE IF Ch(a, 1) # Ch(b, 1) THEN Ord(Ch(a, 1)) < Ord(Ch(b, 1))
    ELSE StrLess(SubSeq(a, 2, Len(a)), SubSeq(b, 2, Len(b)))

\* sorted(S) of a set of strings
SortedSet(S) ==
    [p \in 1..Cardinality(S) |->
        CHOOSE x \in S : Cardinality({y \in S : StrLess(y, x)}) = p - 1]

\* mutation of DetCitations: de-duplicated in order of appearance, never sorted
DetCitationsUnsorted(facts) == Uniq(Sources(facts), <<>>)

\* sorted({f["source"] for f in facts}) if facts else []
DetCitations(facts) == SortedSet(Range(Sources(facts)))

IsIdChar(c) == IsAlpha(c) \/ IsDigit(c) \/ c = "-" \/ c = "."

RECURSIVE AlphaRunEnd(_, _)
AlphaRunEnd(s, i) == IF i <= Len(s) /\ IsAlpha(Ch(s, i)) THEN AlphaRunEnd(s, i + 1) ELSE i

RECURSIVE IdRunEnd(_, _)
IdRunEnd(s, i) == IF i <= Len(s) /\ IsIdChar(Ch(s, i)) THEN IdRunEnd(s, i + 1) ELSE i

RECURSIVE FindCitations(_, _)
\* set(re.findall(r"[A-Za-z]+/[A-Za-z0-9\-\.]+", s)), scanning from position i
FindCitations(s, i) ==
    IF i > Len(s) THEN {}
    ELSE IF ~IsAlpha(Ch(s, i)) THEN FindCitations(s, i + 1)
    ELSE LET j == AlphaRunEnd(s, i)
         IN IF j + 1 <= Len(s) /\ Ch(s, j) = "/" /\ IsIdChar(Ch(s, j + 1))
            THEN {SubSeq(s, i, IdRunEnd(s, j + 1) - 1)} \cup FindCitations(s, IdRunEnd(s, j + 1))
            ELSE FindCitations(s, j)

\* mutation of Accepts: the cited sources are not compared with the deterministic ones
AcceptsAnyCitation(llm_text, det_citations) ==
    /\ llm_text # ""
    /\ Contains("Source:", llm_text)
    /\ FindCitations(llm_text, 1) # {}

\* the guardrail: is the generated text taken as the final answer
\* mutation of Accepts: without deterministic citations a text that cites nothing is accepted
AcceptsUncited(llm_text, det_citations) ==
    LET Allowed(cited_set) ==
            det_citations # <<>> => cited_set # {} /\ cited_set \subseteq Range(det_citations)
    IN /\ llm_text # ""
       /\ Contains("Source:", llm_text)
       /\ Allowed(FindCitations(llm_text, 1))

Accepts(llm_text, det_citations) ==
    LET Allowed(cited_set) ==
            /\ cited_set # {}
            /\ (det_citations # <<>> => cited_set \subseteq Range(det_citations))
    IN /\ llm_text # ""
       /\ Contains("Source:", llm_text)
       /\ Allowed(FindCitations(llm_text, 1))

\* the handler selected for an intent, with the locals facts and deterministic_answer
Dispatch(idx, r, query) ==
    IF r.intent = "condition" THEN handle_condition(idx, r.entity)
    ELSE IF r.intent = "medication" THEN handle_medications(idx, r.entity)
    ELSE IF r.intent = "allergy" THEN handle_allergies(idx)
    ELSE IF r.intent = "avoid_allergies" THEN handle_avoid_due_to_allergies(idx)
    ELSE IF r.intent = "diabetes_complications" THEN handle_diabetes_complications(idx)
    ELSE IF r.intent = "labs" THEN handle_labs(idx, query)
    ELSE IF r.intent = "encounter" THEN handle_encounters(idx)
    ELSE Empty

\* mutation of Refine: the generated text is assigned before it is checked
RefineKeepsText(deterministic_answer, det_citations, gen) ==
    IF gen.raised THEN [used_llm |-> FALSE, answer |-> deterministic_answer]
    ELSE IF Accepts(gen.text, det_citations) THEN [used_llm |-> TRUE, answer |-> gen.text]
    ELSE [used_llm |-> FALSE, answer |-> gen.text]

\* the final answer and used_llm chosen inside the try block; gen is the
\* generator's outcome [raised, text]
Refine(deterministic_answer, det_citations, gen) ==
    IF gen.raised THEN [used_llm |-> FALSE, answer |-> deterministic_answer]
    ELSE IF Accepts(gen.text, det_citations) THEN [used_llm |-> TRUE, answer |-> gen.text]
    ELSE [used_llm |-> FALSE, answer |-> deterministic_answer]

NoAnswer == [status |-> "none", question |-> "", intent |-> "", entity |-> "",
             used_llm |-> FALSE, answer |-> "", citations |-> <<>>]

\* the part of answer_query after the handler has run: r is the routed query,
\* h the handler's result (facts, deterministic_answer)
Assemble(r, h, query, use_llm, llm_provider, gen) ==
    LET Answer(det_citations, final) ==
            [status |-> "returned", question |-> query, intent |-> r.intent, entity |-> r.entity,
             used_llm |-> final.used_llm, answer |-> final.answer, citations |-> det_citations]
        Final(det_citations) ==
            Answer(det_citations,
                   IF use_llm THEN Refine(h.answer, det_citations, gen)
                   ELSE [used_llm |-> FALSE, answer |-> h.answer])
    IN IF use_llm /\ llm_provider # "hf"
       THEN [NoAnswer EXCEPT !.status = "ValueError"]
       ELSE Final(DetCitations(h.facts))

answer_query(idx, query, use_llm, llm_provider, gen) ==
    LET Routed(r) == Assemble(r, Dispatch(idx, r, query), query, use_llm, llm_provider, gen)
    IN Routed(route(query))

(***************************************************************************)
(* The loader (fhir_loader.py) and the normalizer (normalize.py).          *)
(*                                                                         *)
(* A JSON value read by the normalizer is a record [kind, s, coding,       *)
(* start, items]: kind "none" is None or a missing key, "str" the string   *)
(* s, "num" the number written s, "list" the list items, and "map" a map   *)
(* whose "text" entry is s, whose "coding" entry is the list coding and    *)
(* whose "start" entry is start ("" and <<>> stand for a missing entry).   *)
(* An element of a coding list is [kind, system, code, display], of kind   *)
(* "map" or, for an element that is not a map, "str".                      *)
(*                                                                         *)
(* A raw resource carries the keys resourceType, id, code,                 *)
(* medicationCodeableConcept, type, text, recordedDate, effectiveDateTime, *)
(* period and effectivePeriod; every other key is missing, so that the     *)
(* row fields read from them take the value the source gives to None.      *)
(***************************************************************************)
JNone == [kind |-> "none", s |-> "", coding |-> <<>>, start |-> "", items |-> <<>>]
JStr(s) == [JNone EXCEPT !.kind = "str", !.s = s]
JNum(s) == [JNone EXCEPT !.kind = "num", !.s = s]
JList(items) == [JNone EXCEPT !.kind = "list", !.items = items]
JConcept(text, coding) == [JNone EXCEPT !.kind = "map", !.s = text, !.coding = coding]
JPeriod(start) == [JNone EXCEPT !.kind = "map", !.start = start]
JCoding(system, code, display) ==
    [kind |-> "map", system |-> system, code |-> code, display |-> display]
JCodingStr == [kind |-> "str", system |-> "", code |-> "", display |-> ""]

\* bool(v)
Truthy(v) ==
    CASE v.kind = "none" -> FALSE
      [] v.kind = "str" -> v.s # ""
      [] v.kind = "num" -> v.s # "0"
      [] v.kind = "list" -> v.items # <<>>
      [] OTHER -> v.s # "" \/ v.coding # <<>> \/ v.start # ""

\* the outcome of an expression: its value, or the exception it raised
Value(v) == [raised |-> FALSE, value |-> v]
Raises == [raised |-> TRUE, value |-> ""]

_all_codings(cc) ==
    LET IsMap(c) == c.kind = "map"
        Named(c) == Strip(c.system) # "" \/ Strip(c.code) # "" \/ Strip(c.display) # ""
        Triplet(c) == Strip(c.system) \o "|" \o Strip(c.code) \o "|" \o Strip(c.display)
    IN IF cc.kind # "map" THEN <<>>
       ELSE Map(SelectSeq(SelectSeq(cc.coding, IsMap), Named), Triplet)

\* codings[0].get("display") is evaluated on whatever the first element is
_best_text(cc) ==
    IF cc.kind = "map"
    THEN IF Strip(cc.s) # "" THEN Value(Strip(cc.s))
         ELSE IF cc.coding # <<>>
         THEN IF cc.coding[1].kind # "map" THEN Raises
              ELSE Value(Strip(cc.coding[1].display))
         ELSE Value("")
    ELSE IF cc.kind = "str" THEN Value(Strip(cc.s))
    ELSE Value("")

\* dtparser.parse(value).isoformat() on the date and date-time forms of the
\* model; any other string of the model is one the parser rejects
_best_date(value) ==
    IF value = "" THEN ""
    ELSE IF ParseTimestamp(value) = <<>> THEN value
    ELSE IF Len(value) = 10 THEN value \o "T00:00:00"
    ELSE value

\* (p or {}).get("start")
PeriodStart(p) ==
    IF ~Truthy(p) THEN Value("")
    ELSE IF p.kind = "map" THEN Value(p.start)
    ELSE Raises

\* (v or [{}])[0] if isinstance(v, list) else v
FirstOrSelf(v) ==
    IF v.kind # "list" THEN v
    ELSE IF v.items = <<>> THEN [JNone EXCEPT !.kind = "map"]
    ELSE v.items[1]

\* str(v) of an entry that is None (written "") or a string
NoneOr(v) == IF v = "" THEN "None" ELSE v

\* the row of a record whose other keys are missing, or the exception raised
ConditionRow(source, raw) ==
    LET Row(text) ==
            [source |-> source, text |-> text.value, codings |-> _all_codings(raw.code),
             onset |-> "", recorded |-> _best_date(raw.recordedDate),
             clinicalStatus |-> "", verificationStatus |-> ""]
        Built(text) == IF text.raised THEN Raises ELSE Value(Row(text))
    IN Built(_best_text(raw.code))

_chunk_text_condition(row) ==
    JoinStr("\n", << "Resource: " \o row.source,
                     "Condition: " \o row.text,
                     "Codings: " \o JoinStr(", ", row.codings),
                     "Onset: " \o row.onset,
                     "Recorded: " \o row.recorded,
                     "ClinicalStatus: " \o row.clinicalStatus,
                     "VerificationStatus: " \o row.verificationStatus >>)

_normalize_medication(resource_type, source, raw) ==
    LET Row(text, eff) ==
            [source |-> source, resourceType |-> resource_type, text |-> text.value,
             codings |-> _all_codings(raw.medicationCodeableConcept), status |-> "",
             effective |-> _best_date(eff.value), dosageText |-> "", reason |-> ""]
        Built(text, eff) ==
            IF eff.raised \/ text.raised THEN Raises ELSE Value(Row(text, eff))
    IN Built(_best_text(raw.medicationCodeableConcept),
             IF resource_type # "MedicationStatement" THEN Value("")
             ELSE IF raw.effectiveDateTime # "" THEN Value(raw.effectiveDateTime)
             ELSE PeriodStart(raw.effectivePeriod))

_chunk_text_med(row) ==
    JoinStr("\n", << "Resource: " \o row.source,
                     "Medication: " \o row.text,
                     "Codings: " \o JoinStr(", ", row.codings),
                     "Status: " \o NoneOr(row.status),
                     "Effective: " \o row.effective,
                     "Dosage: " \o row.dosageText,
                     "Reason: " \o row.reason >>)

ObservationRow(source, raw) ==
    LET Row(text, eff) ==
            [source |-> source, text |-> text.value, codings |-> _all_codings(raw.code),
             value |-> "", effective |-> _best_date(eff.value), issued |-> "",
             status |-> "", interpretation |-> "", interpretationCodings |-> <<>>]
        Built(text, eff) ==
            IF text.raised \/ eff.raised THEN Raises ELSE Value(Row(text, eff))
    IN Built(_best_text(raw.code),
             IF raw.effectiveDateTime # "" THEN Value(raw.effectiveDateTime)
             ELSE PeriodStart(raw.period))

_chunk_text_obs(row) ==
    JoinStr("\n", << "Resource: " \o row.source,
                     "Observation: " \o row.text,
                     "Codings: " \o JoinStr(", ", row.codings),
                     "Value: " \o row.value,
                     "Interpretation: " \o row.interpretation,
                     "InterpretationCodings: " \o JoinStr(", ", row.interpretationCodings),
                     "Effective: " \o row.effective,
                     "Issued: " \o row.issued,
                     "Status: " \o NoneOr(row.status) >>)

AllergyRow(source, raw) ==
    LET Row(text) ==
            [source |-> source, text |-> text.value, codings |-> _all_codings(raw.code),
             criticality |-> "", clinicalStatus |-> "", verificationStatus |-> "",
             category |-> <<>>, reactions |-> ""]
        Built(text) == IF text.raised THEN Raises ELSE Value(Row(text))
    IN Built(_best_text(raw.code))

_chunk_text_allergy(row) ==
    JoinStr("\n", << "Resource: " \o row.source,
                     "Allergy: " \o row.text,
                     "Codings: " \o JoinStr(", ", row.codings),
                     "Criticality: " \o NoneOr(row.criticality),
                     "ClinicalStatus: " \o row.clinicalStatus,
                     "VerificationStatus: " \o row.verificationStatus,
                     "Category: " \o JoinStr(", ", row.category),
                     "Reactions: " \o row.reactions >>)

EncounterRow(source, raw) ==
    LET Row(type, start) ==
            [source |-> source, type |-> type.value, reason |-> "",
             start |-> _best_date(start.value), end |-> "", status |-> ""]
        Built(type, start) ==
            IF type.raised \/ start.raised THEN Raises ELSE Value(Row(type, start))
    IN Built(_best_text(FirstOrSelf(raw.type)), PeriodStart(raw.period))

_chunk_text_encounter(row) ==
    JoinStr("\n", << "Resource: " \o row.source,
                     "EncounterType: " \o row.type,
                     "Reason: " \o row.reason,
                     "Start: " \o row.start,
                     "End: " \o row.end,
                     "Status: " \o NoneOr(row.status) >>)

\* mutation of Chunk: the row is not kept as the chunk's meta
ChunkWithoutMeta(source, text, meta) ==
    [source |-> source, text |-> text, meta |-> [source |-> source]]

Chunk(source, text, meta) == [source |-> source, text |-> text, meta |-> meta]

\* the chunk of a resource of any other type
FallbackChunk(source, txt) ==
    Chunk(source, "Resource: " \o source \o "\n" \o txt, [source |-> source])

Normalized(conditions, medications, observations, allergies, encounters, chunks) ==
    [conditions |-> conditions, medications |-> medications, observations |-> observations,
     allergies |-> allergies, encounters |-> encounters, chunks |-> chunks]

\* the lists of normalize before its loop, and the outcome of the call
NothingNormalized ==
    [status |-> "running", norm |-> Normalized(<<>>, <<>>, <<>>, <<>>, <<>>, <<>>)]

\* one turn of the loop of normalize on resource r, acc holding the lists so
\* far; an exception leaves the call and nothing is returned
NormalizeOne(acc, r) ==
    LET source == r.resource_type \o "/" \o r.resource_id
        Add(kind, row, text) ==
            [acc EXCEPT !.norm = [@ EXCEPT ![kind] = Append(@, row),
                                           !.chunks = Append(@, Chunk(source, text, row))]]
        Row(kind, built) ==
            IF built.raised THEN [NothingNormalized EXCEPT !.status = "raised"]
            ELSE CASE kind = "conditions" -> Add(kind, built.value, _chunk_text_condition(built.value))
                   [] kind = "medications" -> Add(kind, built.value, _chunk_text_med(built.value))
                   [] kind = "observations" -> Add(kind, built.value, _chunk_text_obs(built.value))
                   [] kind = "allergies" -> Add(kind, built.value, _chunk_text_allergy(built.value))
                   [] kind = "encounters" -> Add(kind, built.value, _chunk_text_encounter(built.value))
        Other(txt) ==
            IF txt.raised THEN [NothingNormalized EXCEPT !.status = "raised"]
            ELSE [acc EXCEPT !.norm.chunks =
                    Append(@, FallbackChunk(source, IF txt.value # "" THEN txt.value
                                                    ELSE r.raw.resourceType))]
    IN CASE r.resource_type = "Condition" -> Row("conditions", ConditionRow(source, r.raw))
         [] r.resource_type \in {"MedicationStatement", "MedicationRequest"} ->
                Row("medications", _normalize_medication(r.resource_type, source, r.raw))
         [] r.resource_type = "Observation" -> Row("observations", ObservationRow(source, r.raw))
         [] r.resource_type = "AllergyIntolerance" -> Row("allergies", AllergyRow(source, r.raw))
         [] r.resource_type = "Encounter" -> Row("encounters", EncounterRow(source, r.raw))
         [] OTHER -> Other(_best_text(r.raw.text))

RECURSIVE NormalizeFrom(_, _, _)
NormalizeFrom(acc, resources, n) ==
    IF acc.status = "raised" THEN acc
    ELSE IF n > Len(resources) THEN [acc EXCEPT !.status = "returned"]
    ELSE NormalizeFrom(NormalizeOne(acc, resources[n]), resources, n + 1)

normalize(resources) == NormalizeFrom(NothingNormalized, resources, 1)

\* a FhirResource per map, none for anything else
_parse_item(item, fallback_file) ==
    IF ~item.dict THEN <<>>
    ELSE << [resource_type |-> IF item.resourceType # "" THEN item.resourceType ELSE "Unknown",
             resource_id |-> IF item.id # "" THEN item.id ELSE fallback_file,
             raw |-> item] >>

\* a file is [name, shape, items]: a Bundle whose entries hold the items
\* as their "resource", a list of items, or one item; files come in the
\* order of their names
RECURSIVE load_fhir_dir(_)
load_fhir_dir(files) ==
    LET RECURSIVE Items(_, _)
        Items(fp, n) ==
            IF n > Len(fp.items) THEN <<>>
            ELSE _parse_item(fp.items[n], fp.name) \o Items(fp, n + 1)
        Load(fp) ==
            CASE fp.shape = "bundle" -> Items(fp, 1)
              [] fp.shape = "list" -> Items(fp, 1)
              [] OTHER -> _parse_item(fp.items[1], fp.name)
    IN IF files = <<>> THEN <<>>
       ELSE Load(files[1]) \o load_fhir_dir(Tail(files))

\* the chunks of rows normalized one kind after the other
RowChunks(conditions, medications, observations, allergies, encounters) ==
    LET Of(rows, Text(_)) ==
            List([n \in DOMAIN rows |-> Chunk(rows[n].source, Text(rows[n]), rows[n])])
    IN Of(conditions, _chunk_text_condition) \o Of(medications, _chunk_text_med)
       \o Of(observations, _chunk_text_obs) \o Of(allergies, _chunk_text_allergy)
       \o Of(encounters, _chunk_text_encounter)

(***************************************************************************)
(* The retrieval index (retrieval.py).  The cosine similarities of a query *)
(* to the chunks come from the TF-IDF vectorizers and are inputs here, in  *)
(* tenths; the combined score is kept times ten.                           *)
(***************************************************************************)
HybridTfidfIndex(chunks) == [chunks |-> chunks]

\* xs[:k]
Slice(xs, k) ==
    IF k >= 0 THEN FirstN(xs, k)
    ELSE IF Len(xs) + k > 0 THEN FirstN(xs, Len(xs) + k)
    ELSE <<>>

\* alpha * sw + (1 - alpha) * sc, alpha = 0.7
Sims(sw, sc) == List([i \in DOMAIN sw |-> 7 * sw[i] + 3 * sc[i]])

\* mutation of ArgSorts: the chunks are not sorted by score
AnyOrder(sims) ==
    {p \in [1..Len(sims) -> 1..Len(sims)] : \A i, j \in 1..Len(sims) : i # j => p[i] # p[j]}

\* the outcomes of np.argsort(-sims): the sort is not stable, so chunks of
\* equal score come in any order
ArgSorts(sims) ==
    LET n == Len(sims)
    IN {p \in [1..n -> 1..n] :
            /\ \A i, j \in 1..n : i # j => p[i] # p[j]
            /\ \A i, j \in 1..n : i < j => sims[p[i]] >= sims[p[j]]}

\* search(query, top_k) given the similarities of the query and the order
\* the sort returned
search(index, sims, order, top_k) ==
    LET idx == Slice(List(order), top_k)
    IN List([n \in DOMAIN idx |-> [chunk |-> index.chunks[idx[n]], score |-> sims[idx[n]]]])

(***************************************************************************)
(* The corpora of the model: rows as normalize() stores them.              *)
(***************************************************************************)
Condition(id, text, codings, recorded, onset) ==
    [source |-> "Condition/" \o id, text |-> text, codings |-> codings, onset |-> onset,
     recorded |-> recorded, clinicalStatus |-> "active", verificationStatus |-> "confirmed"]

Medication(id, text, codings, status, effective, reason) ==
    [source |-> "MedicationStatement/" \o id, resourceType |-> "MedicationStatement",
     text |-> text, codings |-> codings, status |-> status, effective |-> effective,
     dosageText |-> "", reason |-> reason]

Observation(id, text, codings, value, effective, issued, interp, interpCodings) ==
    [source |-> "Observation/" \o id, text |-> text, codings |-> codings, value |-> value,
     effective |-> effective, issued |-> issued, status |-> "final",
     interpretation |-> interp, interpretationCodings |-> interpCodings]

Allergy(id, text, codings, reactions) ==
    [source |-> "AllergyIntolerance/" \o id, text |-> text, codings |-> codings,
     criticality |-> "", clinicalStatus |-> "active", verificationStatus |-> "confirmed",
     category |-> <<"medication">>, reactions |-> reactions]

Encounter(id, type, reason, start) ==
    [source |-> "Encounter/" \o id, type |-> type, reason |-> reason, start |-> start,
     end |-> "", status |-> "finished"]

D2023 == "2023-01-01T00:00:00"
D2021 == "2021-06-15T00:00:00"
D1965 == "1965-03-01T00:00:00"
DBad == "unknown"

ConditionPool ==
    << Condition("c1", "Asthma", <<"http://snomed.info/sct|195967001|Asthma">>, D2023, ""),
       Condition("c2", "Type 2 diabetes mellitus",
                 <<"http://hl7.org/fhir/sid/icd-10-cm|E11.9|Type 2 diabetes">>, D2021, ""),
       Condition("c3", "Chronic kidney disease", <<>>, D1965, ""),
       Condition("c4", "Hypertension", <<"http://snomed.info/sct|38341003|">>, "", D2021),
       Condition("c5", "Diabetic retinopathy", <<>>, DBad, ""),
       Condition("c6", "T2DM", <<"http://hl7.org/fhir/sid/icd-10-cm|e13.9|">>, "", "") >>

MedicationPool ==
    << Medication("m1", "Amoxicillin 500 mg", <<"http://www.nlm.nih.gov/research/umls/rxnorm|723|">>,
                  "active", D2023, "Sinusitis"),
       Medication("m2", "Penicillin V", <<>>, "stopped", D2021, ""),
       Medication("m3", "Lisinopril", <<>>, "active", "", "Hypertension"),
       Medication("m4", "Bactrim", <<>>, "Entered-in-Error", D1965, "") >>

AllergyPool ==
    << Allergy("a1", "Penicillin allergy", <<"http://snomed.info/sct|91936005|">>, "hives"),
       Allergy("a2", "Peanut", <<>>, "anaphylaxis severity=severe"),
       Allergy("a3", "Sulfonamide antibiotic", <<>>, ""),
       Allergy("a4", "", <<>>, "") >>

ObservationPool ==
    << Observation("o1", "HbA1c", <<"http://loinc.org|4548-4|HbA1c">>, "7.2 %", D2023, "",
                   "", <<"http://terminology.hl7.org/CodeSystem/v3-ObservationInterpretation|H|High">>),
       Observation("o2", "Hemoglobin A1c", <<"http://loinc.org|4548-4|HbA1c">>, "6.9 %", D2021, "",
                   "normal", <<>>),
       Observation("o3", "Creatinine", <<>>, "1.1 mg/dL", "", D1965, "", <<>>),
       Observation("o4", "creatinine", <<>>, "", "", "", "", <<>>),
       Observation("o5", "Glucose", <<"http://loinc.org|2345-7|Glucose">>, "", DBad, D2023, "", <<>>) >>

\* LabsCap further observations, each its own LOINC group, dated 2020-01-01 .. 2020-01-10
PadObservations ==
    [n \in 1..LabsCap |->
        LET dd == DigitChars[(n \div 10) + 1] \o DigitChars[(n % 10) + 1]
        IN Observation("p" \o dd, "Panel " \o dd, <<"http://loinc.org|P" \o dd \o "|">>, "1",
                       "2020-01-" \o dd \o "T00:00:00", "", "", <<>>)]

EncounterPool ==
    << Encounter("e1", "Urgent care", "Cough", D2023),
       Encounter("e2", "Office visit", "", D2021),
       Encounter("e3", "Telehealth", "", ""),
       Encounter("e4", "Emergency", "", D1965) >>

\* the sequences of at most n distinct rows of a pool, in any order
RECURSIVE Lists(_, _)
Lists(pool, n) ==
    IF n = 0 THEN {<<>>}
    ELSE LET shorter == Lists(pool, n - 1)
         IN shorter \cup {Append(l, pool[k]) : l \in shorter, k \in DOMAIN pool}

Distinct(l) == \A a, b \in DOMAIN l : a # b => l[a].source # l[b].source

Rows(pool) == {l \in Lists(pool, MaxRows) : Distinct(l)}

\* a corpus normalized from the rows' records and one Patient resource
Corpus(c, m, o, a, e) ==
    Normalized(c, m, o, a, e,
               Append(RowChunks(c, m, o, a, e), FallbackChunk("Patient/p1", "Patient")))

\* one kind varies (medications and allergies together), the others are empty
Corpora ==
    {Corpus(c, <<>>, <<>>, <<>>, <<>>) : c \in Rows(ConditionPool)}
    \cup {Corpus(<<>>, m, <<>>, a, <<>>) : m \in Rows(MedicationPool), a \in Rows(AllergyPool)}
    \cup {Corpus(<<>>, <<>>, o \o pad, <<>>, <<>>) :
            o \in Rows(ObservationPool), pad \in {<<>>, PadObservations}}
    \cup {Corpus(<<>>, <<>>, <<>>, <<>>, e) : e \in Rows(EncounterPool)}

CorpusSources(idx) ==
    {r.source : r \in Range(idx.conditions) \cup Range(idx.medications)
                      \cup Range(idx.observations) \cup Range(idx.allergies)
                      \cup Range(idx.encounters)}

(***************************************************************************)
(* The questions, handler arguments and generator outcomes of the model.   *)
(***************************************************************************)
Questions ==
    {"Does the patient have asthma?", "What is the patient taking for hypertension?",
     "Which medications should be avoided due to allergies?", "Any allergies?",
     "complications of diabetes", "latest a1c result", "Show labs",
     "urgent care visit last week", "What medications?", "Tell me a story"}

Entities == {"", "asthma", " Diabetes ", "hypertension", "penicillin", "zzz"}

LabQueries == {"Show labs", "latest a1c result", "creatinine", "cholesterol labs"}

GeneratedTexts ==
    {"", "Asthma is documented.",
     "Asthma (SNOMED: 195967001).\nSource: Condition/c1",
     "Asthma.\nSource: Condition/c1, Condition/zz9",
     "Nothing relevant.\nSource: none",
     "Avoid Amoxicillin.\nSource: MedicationStatement/m1, AllergyIntolerance/a1"}

GeneratorOutcomes ==
    {[raised |-> TRUE, text |-> ""]} \cup {[raised |-> FALSE, text |-> t] : t \in GeneratedTexts}

Providers == {"hf", "openai"}

\* the generator is not called
NoGeneration == [raised |-> FALSE, text |-> ""]

\* words of the generated questions
RouteWords ==
    {"avoid", "Contraindicated", "allergies", "allergic", "complications", "diabetic",
     "rash", "visit", "urgent", "care", "ER", "labs", "kidney", "medications", "taking",
     "condition", "have", "asthma?", "hypertension", "available", "for"}

RECURSIVE Sentences(_)
\* the questions of at most n words
Sentences(n) ==
    IF n = 0 THEN {""}
    ELSE LET shorter == Sentences(n - 1)
         IN shorter \cup {IF s = "" THEN w ELSE s \o " " \o w : s \in shorter, w \in RouteWords}

RouteInputs == Sentences(MaxWords) \cup Questions \cup {"  History   of stroke, or not"}

(***************************************************************************)
(* The directories, similarities and top_k values of the model.            *)
(***************************************************************************)
\* records of a directory
MaxRecords == 2
\* chunks of a searched index
MaxChunks == 3
\* a cosine similarity, in tenths
MaxScore == 1

Raw ==
    [dict |-> TRUE, resourceType |-> "", id |-> "", code |-> JNone,
     medicationCodeableConcept |-> JNone, type |-> JNone, text |-> JNone,
     recordedDate |-> "", effectiveDateTime |-> "", period |-> JNone, effectivePeriod |-> JNone]

Snomed(code, display) == JCoding("http://snomed.info/sct", code, display)

\* well-formed and partial resources, resources without id, items that are
\* not maps, and resources with a value of an unexpected shape
ItemPool ==
    << [Raw EXCEPT !.resourceType = "Condition", !.id = "c1", !.recordedDate = "2023-01-01",
                   !.code = JConcept("Asthma", <<Snomed("195967001", "Asthma")>>)],
       [Raw EXCEPT !.resourceType = "Condition",
                   !.code = JConcept("", <<Snomed("43116000", " Eczema "), JCodingStr>>)],
       [Raw EXCEPT !.resourceType = "Condition", !.code = JStr("Gout")],
       [Raw EXCEPT !.resourceType = "Condition", !.id = "c4",
                   !.code = JConcept("", <<JCodingStr, Snomed("38341003", "Hypertension")>>)],
       [Raw EXCEPT !.resourceType = "Observation", !.id = "o1", !.code = JConcept("HbA1c", <<>>),
                   !.period = JPeriod(D2021)],
       [Raw EXCEPT !.resourceType = "Observation", !.id = "o2", !.code = JConcept("Glucose", <<>>),
                   !.period = JStr("2021")],
       [Raw EXCEPT !.resourceType = "MedicationStatement", !.id = "m1",
                   !.medicationCodeableConcept = JConcept("Lisinopril", <<>>),
                   !.effectiveDateTime = DBad, !.effectivePeriod = JNum("2020")],
       [Raw EXCEPT !.resourceType = "MedicationStatement", !.id = "m2",
                   !.medicationCodeableConcept = JStr(" Metformin "),
                   !.effectivePeriod = JNum("2020")],
       [Raw EXCEPT !.resourceType = "MedicationRequest", !.id = "m3",
                   !.medicationCodeableConcept = JNum("7")],
       [Raw EXCEPT !.resourceType = "AllergyIntolerance", !.id = "a1",
                   !.code = JConcept("  ", <<Snomed("91936005", "")>>)],
       [Raw EXCEPT !.resourceType = "Encounter", !.id = "e1", !.period = JPeriod("2023-01-01"),
                   !.type = JList(<<JConcept("Urgent care", <<>>)>>)],
       [Raw EXCEPT !.resourceType = "Encounter", !.id = "e2", !.type = JList(<<>>)],
       [Raw EXCEPT !.resourceType = "Patient", !.id = "p1"],
       [Raw EXCEPT !.text = JStr("note")],
       [Raw EXCEPT !.dict = FALSE] >>

\* the sequences of at most n distinct positions of the pool
RECURSIVE Picks(_)
Picks(n) ==
    IF n = 0 THEN {<<>>}
    ELSE LET shorter == Picks(n - 1)
         IN shorter \cup {Append(l, k) : l \in {s \in shorter : Len(s) = n - 1},
                                         k \in DOMAIN ItemPool}

Items(picks) == List([n \in DOMAIN picks |-> ItemPool[picks[n]]])

Shapes(items) == IF Len(items) = 1 THEN {"single", "list", "bundle"} ELSE {"list", "bundle"}

File(name, shape, items) == [name |-> name, shape |-> shape, items |-> items]

\* the directories of two files holding at most n distinct items
Directories(n) ==
    UNION {
        UNION { { <<File("a.json", sa, Items(SubSeq(p, 1, k))),
                    File("b.json", sb, Items(SubSeq(p, k + 1, Len(p))))>> :
                    sa \in Shapes(SubSeq(p, 1, k)), sb \in Shapes(SubSeq(p, k + 1, Len(p))) } :
                k \in 0..Len(p) } :
        p \in {q \in Picks(n) : \A i, j \in DOMAIN q : i # j => q[i] # q[j]} }

\* the corpora searched, of 1 .. MaxChunks chunks
SearchCorpora ==
    {Corpus(FirstN(<<ConditionPool[1]>>, n), FirstN(<<MedicationPool[1]>>, n - 1), <<>>, <<>>,
            FirstN(<<EncounterPool[1]>>, n - 2)) : n \in 0..(MaxChunks - 1)}

Similarities(n) == [1..n -> 0..MaxScore]

TopKs == -2 .. (MaxChunks + 1)

(***************************************************************************)
(* State: the index built at start-up and the values of the call in        *)
(* progress (the routed query, the selected handler's result, the          *)
(* generator's outcome and the returned Answer).                           *)
(***************************************************************************)
NoRoute == RoutedQuery("", "", "")
NoOut == [handler |-> "", arg |-> "", facts |-> <<>>, answer |-> ""]
NoLlm == [use_llm |-> FALSE, provider |-> "", raised |-> FALSE, text |-> ""]
\* build_index not running, and no search made
NoBuild == [status |-> "none", resources |-> <<>>]
NoSearch == [status |-> "none", sims |-> <<>>, order |-> <<>>, top_k |-> 0, hits |-> <<>>]

Called(handler, arg, h) == [handler |-> handler, arg |-> arg, facts |-> h.facts, answer |-> h.answer]

Idle == rq = NoRoute /\ out = NoOut /\ llm = NoLlm /\ answer = NoAnswer

\* the index has been built
Init ==
    /\ normalized \in Corpora
    /\ rq = NoRoute
    /\ out = NoOut
    /\ llm = NoLlm
    /\ answer = NoAnswer
    /\ build = NoBuild
    /\ retrieval = HybridTfidfIndex(normalized.chunks)
    /\ found = NoSearch

\* the index if the handler of the intent sorted its list where it stands
SortedWhereItStands(idx, intent) ==
    CASE intent = "condition" ->
            [idx EXCEPT !.conditions = _sort_by_date(@, "recorded")]
      [] intent = "medication" ->
            [idx EXCEPT !.medications = _sort_by_date(@, "effective")]
      [] intent = "encounter" ->
            [idx EXCEPT !.encounters = _sort_by_date(@, "start")]
      [] OTHER -> idx

\* the index after a call on it: the handlers sort and filter copies of its
\* lists (sorted(), comprehensions, list(...)) and search only reads
Kept(idx, intent) == idx

\* the calls answer_query(idx, q, use_llm=..., llm_provider=...) and the outcomes
\* of the generator in them; without generation the defaults stand
LlmCalls ==
    {[use_llm |-> FALSE, provider |-> "hf", gen |-> NoGeneration]}
    \cup {[use_llm |-> TRUE, provider |-> "hf", gen |-> g] : g \in GeneratorOutcomes}
    \cup {[use_llm |-> TRUE, provider |-> p, gen |-> NoGeneration] : p \in Providers \ {"hf"}}

\* answer_query(idx, q, ...): r is its RoutedQuery and h the result of the
\* selected handler, both computed once whatever the generator does
AnswerQuery(q) ==
    /\ Idle
    /\ \E r \in {route(q)} : \E h \in {Dispatch(normalized, r, q)} : \E call \in LlmCalls :
          /\ rq' = r
          /\ out' = Called(r.intent, IF r.intent = "labs" THEN q ELSE r.entity, h)
          /\ llm' = [use_llm |-> call.use_llm, provider |-> call.provider,
                     raised |-> call.gen.raised, text |-> call.gen.text]
          /\ answer' = Assemble(r, h, q, call.use_llm, call.provider, call.gen)
          /\ normalized' = Kept(normalized, r.intent)
    /\ UNCHANGED <<build, retrieval, found>>

\* route(q) called on its own
Route(q) ==
    /\ Idle
    /\ rq' = route(q)
    /\ UNCHANGED <<normalized, out, llm, answer, build, retrieval, found>>

HandleCondition(entity) ==
    /\ Idle
    /\ out' = Called("condition", entity, handle_condition(normalized, entity))
    /\ UNCHANGED <<normalized, rq, llm, answer, build, retrieval, found>>

HandleMedications(entity) ==
    /\ Idle
    /\ out' = Called("medication", entity, handle_medications(normalized, entity))
    /\ UNCHANGED <<normalized, rq, llm, answer, build, retrieval, found>>

HandleAllergies ==
    /\ Idle
    /\ out' = Called("allergy", "", handle_allergies(normalized))
    /\ UNCHANGED <<normalized, rq, llm, answer, build, retrieval, found>>

HandleAvoid ==
    /\ Idle
    /\ out' = Called("avoid_allergies", "", handle_avoid_due_to_allergies(normalized))
    /\ UNCHANGED <<normalized, rq, llm, answer, build, retrieval, found>>

HandleDiabetes ==
    /\ Idle
    /\ out' = Called("diabetes_complications", "", handle_diabetes_complications(normalized))
    /\ UNCHANGED <<normalized, rq, llm, answer, build, retrieval, found>>

HandleLabs(query_text) ==
    /\ Idle
    /\ out' = Called("labs", query_text, handle_labs(normalized, query_text))
    /\ UNCHANGED <<normalized, rq, llm, answer, build, retrieval, found>>

HandleEncounters ==
    /\ Idle
    /\ out' = Called("encounter", "", handle_encounters(normalized))
    /\ UNCHANGED <<normalized, rq, llm, answer, build, retrieval, found>>

\* the call has returned (or raised): its values are dropped, the index stays
Respond ==
    /\ ~Idle
    /\ rq' = NoRoute
    /\ out' = NoOut
    /\ llm' = NoLlm
    /\ answer' = NoAnswer
    /\ UNCHANGED <<normalized, build, retrieval, found>>

Next ==
    \/ \E q \in Questions : AnswerQuery(q)
    \/ Respond

Spec == Init /\ [][Next]_vars

\* the handlers called directly
NextHandlers ==
    \/ \E entity \in Entities : HandleCondition(entity)
    \/ \E entity \in Entities : HandleMedications(entity)
    \/ HandleAllergies
    \/ HandleAvoid
    \/ HandleDiabetes
    \/ \E query_text \in LabQueries : HandleLabs(query_text)
    \/ HandleEncounters
    \/ Respond

SpecHandlers == Init /\ [][NextHandlers]_vars

\* the router called directly
InitRoute ==
    /\ normalized = Corpus(<<>>, <<>>, <<>>, <<>>, <<>>)
    /\ rq = NoRoute
    /\ out = NoOut
    /\ llm = NoLlm
    /\ answer = NoAnswer
    /\ build = NoBuild
    /\ retrieval = HybridTfidfIndex(normalized.chunks)
    /\ found = NoSearch

NextRoute ==
    \/ \E q \in RouteInputs : Route(q)
    \/ Respond

SpecRoute == InitRoute /\ [][NextRoute]_vars

\* build_index(data_dir): nothing is normalized or indexed yet
InitBuild ==
    /\ normalized = Normalized(<<>>, <<>>, <<>>, <<>>, <<>>, <<>>)
    /\ rq = NoRoute
    /\ out = NoOut
    /\ llm = NoLlm
    /\ answer = NoAnswer
    /\ build = NoBuild
    /\ retrieval = HybridTfidfIndex(<<>>)
    /\ found = NoSearch

LoadFhirDir ==
    /\ build.status = "none"
    /\ \E files \in Directories(MaxRecords) :
          build' = [status |-> "loaded", resources |-> load_fhir_dir(files)]
    /\ UNCHANGED <<normalized, rq, out, llm, answer, retrieval, found>>

\* norm = normalize(resources), or the exception that ends build_index
Normalize ==
    /\ build.status = "loaded"
    /\ \E n \in {normalize(build.resources)} :
          /\ build' = [build EXCEPT !.status = IF n.status = "raised" THEN "raised"
                                               ELSE "normalized"]
          /\ normalized' = n.norm
    /\ UNCHANGED <<rq, out, llm, answer, retrieval, found>>

\* retrieval = build_hybrid_tfidf(norm.chunks); the vectorizers reject an
\* empty list of texts
BuildHybridTfidf ==
    /\ build.status = "normalized"
    /\ IF normalized.chunks = <<>>
       THEN build' = [build EXCEPT !.status = "no_index"] /\ UNCHANGED retrieval
       ELSE build' = [build EXCEPT !.status = "indexed"]
            /\ retrieval' = HybridTfidfIndex(normalized.chunks)
    /\ UNCHANGED <<normalized, rq, out, llm, answer, found>>

NextBuild ==
    \/ LoadFhirDir
    \/ Normalize
    \/ BuildHybridTfidf

SpecBuild == InitBuild /\ [][NextBuild]_vars

\* searches on a built index
InitSearch ==
    /\ normalized \in SearchCorpora
    /\ rq = NoRoute
    /\ out = NoOut
    /\ llm = NoLlm
    /\ answer = NoAnswer
    /\ build = NoBuild
    /\ retrieval = HybridTfidfIndex(normalized.chunks)
    /\ found = NoSearch

\* idx.retrieval.search(query, top_k): sw and sc are the similarities of the query
Search(sw, sc, top_k) ==
    /\ found = NoSearch
    /\ \E sims \in {Sims(sw, sc)} : \E order \in ArgSorts(sims) :
          found' = [status |-> "returned", sims |-> sims, order |-> List(order), top_k |-> top_k,
                    hits |-> search(retrieval, sims, order, top_k)]
    /\ UNCHANGED <<normalized, rq, out, llm, answer, build, retrieval>>

\* the hits are handed to the caller
Retrieved ==
    /\ found # NoSearch
    /\ found' = NoSearch
    /\ UNCHANGED <<normalized, rq, out, llm, answer, build, retrieval>>

NextSearch ==
    \/ \E sw, sc \in Similarities(Len(retrieval.chunks)), top_k \in TopKs : Search(sw, sc, top_k)
    \/ Retrieved

SpecSearch == InitSearch /\ [][NextSearch]_vars

\* the labs handler over one observation, its interpretation drawn from the
\* codes and texts below
InterpretationCodings ==
    <<"v3|H|High", "v3|hh|", "v3|L|", "v3|LL|Low", "v3|A|", "v3|aa|", "v3|N|Normal", "v3||High">>

InterpretationTexts ==
    {"", "High", "Elevated", "above range", "Low", "below range", "Normal", "Abnormal", "n/a"}

InterpretedObservations ==
    {Observation("o1", "HbA1c", <<"http://loinc.org|4548-4|HbA1c">>, "7.2 %", D2023, "", t, cs) :
        t \in InterpretationTexts, cs \in Lists(InterpretationCodings, MaxCodes)}

InitLabs ==
    /\ normalized \in {Corpus(<<>>, <<>>, <<o>>, <<>>, <<>>) : o \in InterpretedObservations}
    /\ rq = NoRoute
    /\ out = NoOut
    /\ llm = NoLlm
    /\ answer = NoAnswer
    /\ build = NoBuild
    /\ retrieval = HybridTfidfIndex(normalized.chunks)
    /\ found = NoSearch

NextLabs ==
    \/ \E query_text \in LabQueries : HandleLabs(query_text)
    \/ Respond

SpecLabs == InitLabs /\ [][NextLabs]_vars

\* the encounter handler over more encounters than it reports
ManyEncounters ==
    {l \in Lists(Append(EncounterPool, Encounter("e5", "Follow-up", "", "")), MaxEncounters) :
        Distinct(l)}

InitEncounters ==
    /\ normalized \in {Corpus(<<>>, <<>>, <<>>, <<>>, e) : e \in ManyEncounters}
    /\ rq = NoRoute
    /\ out = NoOut
    /\ llm = NoLlm
    /\ answer = NoAnswer
    /\ build = NoBuild
    /\ retrieval = HybridTfidfIndex(normalized.chunks)
    /\ found = NoSearch

NextEncounters ==
    \/ HandleEncounters
    \/ Respond

SpecEncounters == InitEncounters /\ [][NextEncounters]_vars

\* the condition and allergy handlers over one row each, the codings of both
\* drawn from the pool below
CodingPool ==
    <<"icd-10|E11|", "icd-10|E12|", "icd-10| E13 |x", "icd-10|E14|", "snomed|1|Asthma",
      "icd-10||E15", "zz|9|">>

InitRefs ==
    /\ \E cs \in Lists(CodingPool, MaxCodings) :
          normalized = Corpus(<<Condition("c1", "Asthma", cs, "", "")>>, <<>>, <<>>,
                              <<Allergy("a1", "Peanut", cs, "")>>, <<>>)
    /\ rq = NoRoute
    /\ out = NoOut
    /\ llm = NoLlm
    /\ answer = NoAnswer
    /\ build = NoBuild
    /\ retrieval = HybridTfidfIndex(normalized.chunks)
    /\ found = NoSearch

NextRefs ==
    \/ HandleCondition("")
    \/ HandleAllergies
    \/ Respond

SpecRefs == InitRefs /\ [][NextRefs]_vars

(***************************************************************************)
(* Properties.                                                             *)
(***************************************************************************)
Returned == answer.status = "returned"
\* the generator was called: use_llm=true with the supported provider
Attempted == ~Idle /\ llm.use_llm /\ llm.provider = "hf"
Generated == Returned /\ llm.use_llm /\ llm.provider = "hf"
CitedIn(text) == FindCitations(text, 1)

\* C1: whenever answer_query returns used_llm=true, generation was asked for, the
\* generated text holds the marker "Source:" and is the returned text, and, if
\* Answer.citations is non-empty, every citation token of the returned text is
\* one of Answer.citations.
C1_GuardedCitations ==
    (Returned /\ answer.used_llm) =>
        /\ llm.use_llm
        /\ Contains("Source:", llm.text)
        /\ answer.answer = llm.text
        /\ (answer.citations # <<>> => CitedIn(answer.answer) \subseteq Range(answer.citations))

\* C1 witness: a generated text was accepted against a non-empty citation set
C1_Witness ==
    /\ Returned /\ answer.used_llm
    /\ answer.citations # <<>>
    /\ answer.answer = llm.text

\* C2 as stated: a raising generator, an empty text, a text without "Source:"
\* or a text with a citation outside the deterministic set always gives
\* used_llm=false and the deterministic answer.
C2_AnyOutsideCitationRejected ==
    (Attempted /\ ( \/ llm.raised
                    \/ llm.text = ""
                    \/ ~Contains("Source:", llm.text)
                    \/ ~(CitedIn(llm.text) \subseteq Range(answer.citations)) )) =>
        (Returned /\ ~answer.used_llm /\ answer.answer = out.answer)

\* C2 amended: the same, the third rejection being a citation outside a
\* non-empty deterministic set (with an empty set the citations of the text
\* are accepted as they are).
C2_FallbackOnFailure ==
    (Attempted /\ ( \/ llm.raised
                    \/ llm.text = ""
                    \/ ~Contains("Source:", llm.text)
                    \/ /\ answer.citations # <<>>
                       /\ ~(CitedIn(llm.text) \subseteq Range(answer.citations)) )) =>
        (Returned /\ ~answer.used_llm /\ answer.answer = out.answer)

\* C2 witness: a text with the marker and a hallucinated citation was rejected
\* and the handler's non-trivial answer returned
C2_Witness ==
    /\ Generated /\ ~llm.raised
    /\ Contains("Source:", llm.text)
    /\ answer.citations # <<>>
    /\ ~(CitedIn(llm.text) \subseteq Range(answer.citations))
    /\ ~answer.used_llm
    /\ answer.answer = out.answer
    /\ out.answer # NotFound

\* C3: every fact a handler returns is cited to the source of a row of the corpus.
C3_FactSourcesInCorpus ==
    \A n \in DOMAIN out.facts : out.facts[n].source \in CorpusSources(normalized)

\* C3 witness: the avoid_allergies handler returned conflict facts and allergy facts
C3_Witness ==
    /\ out.handler = "avoid_allergies"
    /\ Len(out.facts) >= 3
    /\ \E n \in DOMAIN out.facts : StartsWith(out.facts[n].text, "Avoid ")

StrictlySorted(xs) == \A n \in 1..(Len(xs) - 1) : StrLess(xs[n], xs[n + 1])

\* C4: Answer.citations is the sorted duplicate-free sequence of the sources of
\* the handler's facts, and it equals the citations of the same call without
\* generation, whatever the generator did.
C4_CitationsSortedUnique ==
    Returned =>
        /\ StrictlySorted(answer.citations)
        /\ Range(answer.citations) = {out.facts[n].source : n \in DOMAIN out.facts}
        /\ answer.citations
             = answer_query(normalized, answer.question, FALSE, "hf", NoGeneration).citations

\* C4 witness: generation was used on facts whose sources repeat and are not in
\* sorted order
C4_Witness ==
    /\ Generated
    /\ Len(answer.citations) >= 2
    /\ Len(out.facts) > Len(answer.citations)
    /\ ~StrictlySorted(Uniq(Sources(out.facts), <<>>))

\* C5: route returns, for every question, a RoutedQuery whose intent is one of
\* the eight defined intents.
C5_RouteTotal == rq # NoRoute => rq.intent \in Intents

\* C5 witness: a non-empty question no rule matches was routed to fallback
C5_Witness == rq.raw # "" /\ rq.intent = "fallback"

RuleOrder == <<"avoid_allergies", "diabetes_complications", "allergy", "encounter",
               "labs", "medication", "condition", "fallback">>

\* does the rule of an intent match the lower-cased question
RuleMatches(intent, ql) ==
    CASE intent = "avoid_allergies" -> RuleAvoid(ql)
      [] intent = "diabetes_complications" -> RuleDiabetes(ql)
      [] intent = "allergy" -> SearchWords(PAT_ALLERGY, ql)
      [] intent = "encounter" -> SearchWords(PAT_ENCOUNTER, ql)
      [] intent = "labs" -> SearchWords(PAT_LABS, ql)
      [] intent = "medication" -> SearchWords(PAT_MED, ql)
      [] intent = "condition" -> SearchWords(PAT_CONDITION, ql)
      [] OTHER -> TRUE

\* C6: the intent route returns is the first, in the fixed rule order, whose
\* rule matches the lower-cased question; a question matching the encounter
\* rule and no earlier one is routed to encounter whatever later rules match.
C6_FirstMatchWins ==
    rq # NoRoute =>
        LET ql == Lower(Strip(rq.raw))
        IN /\ \E k \in DOMAIN RuleOrder :
                /\ rq.intent = RuleOrder[k]
                /\ RuleMatches(RuleOrder[k], ql)
                /\ \A j \in 1..(k - 1) : ~RuleMatches(RuleOrder[j], ql)
           /\ (/\ RuleMatches("encounter", ql)
               /\ ~RuleMatches("avoid_allergies", ql)
               /\ ~RuleMatches("diabetes_complications", ql)
               /\ ~RuleMatches("allergy", ql)) => rq.intent = "encounter"

\* C6 witness: a question matching the encounter rule and the labs rule was
\* routed to encounter
C6_Witness ==
    /\ rq.intent = "encounter"
    /\ RuleMatches("labs", Lower(Strip(rq.raw)))

\* the rows a handler would report: none of its kind, or none left by its filter
NothingToReport ==
    LET ent == Lower(Strip(out.arg))
        q == Lower(out.arg)
        conditions == normalized.conditions
        observations == normalized.observations
        EntityHit(c) == Contains(ent, Lower(c.text)) \/ Contains(ent, Lower(JoinStr(" ", c.codings)))
        Named(c) == AnyIn(diabetes_markers, Lower(c.text))
        Diabetic == \E n \in DOMAIN conditions : is_diabetes(conditions[n])
        Complication(c) == Named(c) \/ (Diabetic /\ AnyIn(complication_keywords, Lower(c.text)))
        wanted == {target_terms[n] : n \in {m \in DOMAIN target_terms : Contains(target_terms[m], q)}}
        TermHit(o) == \E t \in wanted :
                         Contains(t, Lower(o.text)) \/ Contains(t, Lower(JoinStr(" ", o.codings)))
    IN CASE out.handler = "condition" ->
              \/ conditions = <<>>
              \/ ent # "" /\ \A n \in DOMAIN conditions : ~EntityHit(conditions[n])
         [] out.handler = "medication" -> normalized.medications = <<>>
         [] out.handler = "allergy" -> normalized.allergies = <<>>
         [] out.handler = "avoid_allergies" -> normalized.allergies = <<>>
         [] out.handler = "diabetes_complications" ->
              \A n \in DOMAIN conditions : ~Complication(conditions[n])
         [] out.handler = "labs" ->
              \/ observations = <<>>
              \/ wanted # {} /\ \A n \in DOMAIN observations : ~TermHit(observations[n])
         [] out.handler = "encounter" -> normalized.encounters = <<>>
         [] OTHER -> FALSE

\* C7: a handler with no row of its kind, or with no row left by its filter,
\* returns no facts and exactly the answer "Not found in provided records.".
C7_NotFoundWhenNothing ==
    NothingToReport => (out.facts = <<>> /\ out.answer = "Not found in provided records.")

\* C7 witness: the condition handler found conditions in the corpus, none of
\* them matching the entity
C7_Witness ==
    /\ out.handler = "condition"
    /\ normalized.conditions # <<>>
    /\ NothingToReport
    /\ out.answer = NotFound

\* the medications whose status is neither stopped nor entered-in-error
CurrentMedications == SelectSeq(normalized.medications, IsCurrent)

\* C8: every "Avoid X ... due to allergy to Y" line of the avoid_allergies
\* handler names a current medication X; a stopped or entered-in-error
\* medication yields no such line.
C8_OnlyCurrentMedications ==
    out.handler = "avoid_allergies" =>
        \A m \in Range(normalized.medications), a \in Range(normalized.allergies) :
            AvoidLine(m, a) \in Range(Texts(out.facts)) =>
                \E c \in Range(CurrentMedications), b \in Range(normalized.allergies) :
                    AvoidLine(c, b) = AvoidLine(m, a)

\* the rows of the kind a handler reads
RowsOf(handler) ==
    CASE handler \in {"condition", "diabetes_complications"} -> normalized.conditions
      [] handler = "medication" -> normalized.medications
      [] handler = "labs" -> normalized.observations
      [] handler = "encounter" -> normalized.encounters
      [] OTHER -> <<>>

\* the date a handler ranks a row by
RankDate(handler, row) ==
    CASE handler \in {"condition", "diabetes_complications"} -> row.recorded
      [] handler = "medication" -> row.effective
      [] handler = "labs" -> Or(row.effective, row.issued)
      [] handler = "encounter" -> row.start
      [] OTHER -> ""

HasDate(v) == ParseTimestamp(v) # <<>>
\* is the date v later than the date w, a missing or unparseable date being later than none
Later(v, w) == HasDate(v) /\ (~HasDate(w) \/ ParseTimestamp(v)[1] > ParseTimestamp(w)[1])
SameRank(v, w) == ~Later(v, w) /\ ~Later(w, v)

\* position in the corpus of the row a fact cites
PositionOf(handler, source) ==
    CHOOSE n \in DOMAIN RowsOf(handler) : RowsOf(handler)[n].source = source

RankedHandlers == {"condition", "medication", "diabetes_complications", "encounter", "labs"}

\* position at which the sort of a handler receives the row of a fact: its
\* position in the corpus, for labs the position of the first candidate of its group
InputPosition(handler, arg, source) ==
    IF handler = "labs"
    THEN LET cands == ObsUse(normalized.observations, arg)
             key == ObsKey(RowsOf(handler)[PositionOf(handler, source)])
         IN CHOOSE n \in DOMAIN cands :
                /\ ObsKey(cands[n]) = key
                /\ \A m \in 1..(n - 1) : ObsKey(cands[m]) # key
    ELSE PositionOf(handler, source)

\* C9: the facts of every date-ranked handler are in descending order of the
\* parsed date, every row with a missing or unparseable date after every row
\* with a date (dates before 1970 included), rows of equal date in input order.
C9_DescendingDatesUndatedLast ==
    out.handler \in RankedHandlers =>
        \A i, j \in DOMAIN out.facts :
            i < j =>
                LET di == RankDate(out.handler, RowsOf(out.handler)[PositionOf(out.handler, out.facts[i].source)])
                    dj == RankDate(out.handler, RowsOf(out.handler)[PositionOf(out.handler, out.facts[j].source)])
                IN /\ ~Later(dj, di)
                   /\ SameRank(di, dj) =>
                         InputPosition(out.handler, out.arg, out.facts[i].source)
                           < InputPosition(out.handler, out.arg, out.facts[j].source)

Min(a, b) == IF a < b THEN a ELSE b

\* C10: the labs handler returns one fact per group (first LOINC code, else
\* lower-cased name) up to 10 facts, the fact of a group being its observation
\* with the latest effective (else issued) date, groups in descending date order.
C10_LatestPerGroup ==
    out.handler = "labs" =>
        LET cands == ObsUse(normalized.observations, out.arg)
            row(n) == normalized.observations[PositionOf("labs", out.facts[n].source)]
            date(o) == Or(o.effective, o.issued)
            groups == {ObsKey(o) : o \in Range(cands)}
        IN /\ Len(out.facts) = Min(10, Cardinality(groups))
           /\ \A i, j \in DOMAIN out.facts : i # j => ObsKey(row(i)) # ObsKey(row(j))
           /\ \A n \in DOMAIN out.facts :
                 /\ row(n) \in Range(cands)
                 /\ \A o \in Range(cands) :
                       ObsKey(o) = ObsKey(row(n)) => ~Later(date(o), date(row(n)))
           /\ \A i, j \in DOMAIN out.facts : i < j => ~Later(date(row(j)), date(row(i)))

\* normalize has returned
NormalizeReturned == build.status \in {"normalized", "indexed", "no_index"}

SourceOf(r) == r.resource_type \o "/" \o r.resource_id

KindOf(resource_type) ==
    CASE resource_type = "Condition" -> "conditions"
      [] resource_type \in {"MedicationStatement", "MedicationRequest"} -> "medications"
      [] resource_type = "Observation" -> "observations"
      [] resource_type = "AllergyIntolerance" -> "allergies"
      [] resource_type = "Encounter" -> "encounters"
      [] OTHER -> ""

Kinds == {"conditions", "medications", "observations", "allergies", "encounters"}

\* C11: in a built corpus every row and every chunk carries a source that
\* identifies exactly one loaded record; no two records share a source.
C11_SourceIdentifiesOneRecord ==
    NormalizeReturned =>
        /\ \A c \in Range(normalized.chunks) :
              Cardinality({n \in DOMAIN build.resources :
                              SourceOf(build.resources[n]) = c.source}) = 1
        /\ \A i, j \in DOMAIN normalized.chunks :
              i # j => normalized.chunks[i].source # normalized.chunks[j].source
        /\ \A kind \in Kinds : \A i, j \in DOMAIN normalized[kind] :
              i # j => normalized[kind][i].source # normalized[kind][j].source

\* the records of the kind among the first n resources
CountOf(kind, n) ==
    Cardinality({k \in 1..n : KindOf(build.resources[k].resource_type) = kind})

\* C12: a normalize call that returns has emitted one chunk per record, in
\* input order; a record of a recognized type has appended one row to its
\* kind's list and a chunk of the same source whose meta is that row, any
\* other record a fallback chunk and no row.
C12_OneChunkPerRecord ==
    NormalizeReturned =>
        /\ Len(normalized.chunks) = Len(build.resources)
        /\ \A kind \in Kinds : Len(normalized[kind]) = CountOf(kind, Len(build.resources))
        /\ \A n \in DOMAIN build.resources :
              LET r == build.resources[n]
                  kind == KindOf(r.resource_type)
              IN /\ normalized.chunks[n].source = SourceOf(r)
                 /\ kind # "" =>
                       /\ normalized[kind][CountOf(kind, n)].source = SourceOf(r)
                       /\ normalized.chunks[n].meta = normalized[kind][CountOf(kind, n)]
                 /\ kind = "" => normalized.chunks[n].meta = [source |-> SourceOf(r)]

\* a batch holding a record of a recognized type and a record of another
\* type has been normalized
C12_Witness ==
    /\ NormalizeReturned
    /\ \E i, j \in DOMAIN build.resources :
          /\ KindOf(build.resources[i].resource_type) = ""
          /\ KindOf(build.resources[j].resource_type) # ""

\* C13: normalize never raises, whatever the shape of a record's fields: the
\* batch is normalized and every record has its chunk.
C13_NormalizeNeverRaises ==
    build.status # "loaded" /\ build.status # "none" =>
        /\ build.status # "raised"
        /\ Len(normalized.chunks) = Len(build.resources)

Max(a, b) == IF a > b THEN a ELSE b

\* the hits are chunks of the index with their combined scores, no chunk
\* twice, in non-increasing score order, and no chunk left out scores
\* strictly higher than a returned one
BestHits ==
    LET chunks == retrieval.chunks
        hits == found.hits
        Returns(c) == \E i \in DOMAIN hits : hits[i].chunk = chunks[c]
    IN /\ \A i \in DOMAIN hits :
             \E c \in DOMAIN chunks : hits[i].chunk = chunks[c] /\ hits[i].score = found.sims[c]
       /\ \A i, j \in DOMAIN hits : i # j => hits[i].chunk # hits[j].chunk
       /\ \A i, j \in DOMAIN hits : i < j => hits[i].score >= hits[j].score
       /\ \A c \in DOMAIN chunks :
             ~Returns(c) => \A i \in DOMAIN hits : found.sims[c] <= hits[i].score

\* C14 (as stated): for every index, query and topK, search returns at most
\* topK pairs, chunks of the index without repetition, in non-increasing
\* score order, no omitted chunk scoring strictly higher than a returned one.
C14_AtMostTopK ==
    found.status = "returned" => Len(found.hits) <= found.top_k /\ BestHits

\* C14 (amended): for topK >= 0 search returns min(topK, n) pairs, hence at
\* most topK; for topK < 0 it returns all but the last -topK chunks of the
\* score order (none when n <= -topK), which is more than topK pairs; in
\* both cases the pairs are chunks of the index without repetition, in
\* non-increasing score order, and no omitted chunk scores strictly higher.
C14_TopKBestChunks ==
    found.status = "returned" =>
        /\ found.top_k >= 0 => Len(found.hits) = Min(found.top_k, Len(retrieval.chunks))
        /\ found.top_k < 0 => Len(found.hits) = Max(Len(retrieval.chunks) + found.top_k, 0)
        /\ BestHits

\* a search that leaves chunks out, one of them with the score of a returned one
C14_Witness ==
    /\ found.status = "returned"
    /\ found.top_k > 0
    /\ Len(found.hits) = found.top_k
    /\ Len(found.hits) < Len(retrieval.chunks)
    /\ \E i \in DOMAIN found.hits :
          /\ found.sims[found.order[Len(found.hits) + 1]] = found.hits[i].score
          /\ found.hits[1].score > found.hits[i].score

\* C15: on a built index answer_query never raises, whatever the question
\* and the arguments (use_llm with a provider other than "hf" included):
\* every call ends with a returned Answer.
C15_AnswerQueryNeverRaises ==
    ~Idle => answer.status = "returned"

EndsWith(s, k) == Len(k) <= Len(s) /\ SubSeq(s, Len(s) - Len(k) + 1, Len(s)) = k

\* the facts citing the row
FactsOf(row) == {n \in DOMAIN out.facts : out.facts[n].source = row.source}

AnswerLines == Split(out.answer, "\n")
SourceList ==
    LET last == AnswerLines[Len(AnswerLines)]
    IN Map(Split(SubSeq(last, Len("Source: ") + 1, Len(last)), ","), LStrip)

\* the sources a handler cites, in the order it cites them: those of its
\* facts; for the avoid handler those of the conflicting pairs and of the
\* named allergies, or of the named allergies and the current medications
CitedSources ==
    LET meds == normalized.medications
        alls == normalized.allergies
        Named(a) == Strip(a.text) # ""
        RECURSIVE PairSources(_, _)
        PairSources(i, j) ==
            IF i > Len(meds) THEN <<>>
            ELSE IF j > Len(alls) THEN PairSources(i + 1, 1)
            ELSE (IF Conflicts(meds[i], alls[j]) THEN <<meds[i].source, alls[j].source>>
                  ELSE <<>>) \o PairSources(i, j + 1)
    IN IF out.handler # "avoid_allergies" THEN Sources(out.facts)
       ELSE IF PairSources(1, 1) # <<>>
       THEN PairSources(1, 1) \o Sources(SelectSeq(alls, Named))
       ELSE IF \E a \in Range(alls) : Named(a) /\ is_med_related(a)
       THEN Sources(SelectSeq(alls, Named)) \o Sources(CurrentMedications)
       ELSE Sources(out.facts)

\* the positions of the first occurrences in a list
FirstOccurrences(xs) == {n \in DOMAIN xs : \A k \in 1..(n - 1) : xs[k] # xs[n]}

\* C17: every handler answer other than "Not found in provided records."
\* is the statement lines (the fact texts, for every handler but the avoid
\* handler, whose lines are its own), a blank line and a final line
\* "Source: " with a non-empty comma-separated list holding each cited
\* source exactly once, in the order of first occurrence.
C17_SourceLineListsEachSourceOnce ==
    out.handler # "" /\ out.answer # NotFound =>
        LET n == Len(AnswerLines)
            list == SourceList
            cited == CitedSources
        IN /\ n >= 3
           /\ StartsWith(AnswerLines[n], "Source: ")
           /\ AnswerLines[n - 1] = ""
           /\ \A k \in 1..(n - 2) : AnswerLines[k] # ""
           /\ out.handler # "avoid_allergies" => SubSeq(AnswerLines, 1, n - 2) = Texts(out.facts)
           /\ list # <<>>
           /\ \A k \in DOMAIN list : list[k] # ""
           /\ \A i, j \in DOMAIN list : i # j => list[i] # list[j]
           /\ Range(list) = Range(cited)
           /\ \A i, j \in DOMAIN list :
                 i < j => \E a, b \in FirstOccurrences(cited) :
                             a < b /\ cited[a] = list[i] /\ cited[b] = list[j]

\* an answer whose handler cited a source more than once
C17_Witness ==
    /\ out.handler # ""
    /\ out.answer # NotFound
    /\ Len(SourceList) >= 2
    /\ \E i, j \in DOMAIN out.facts : i # j /\ out.facts[i].source = out.facts[j].source

\* C18: no answer_query call, whatever the question and the intent, changes
\* the normalized corpus (row lists, their order and contents, the chunks)
\* or the retrieval index, and the index stays the one built over the chunks.
C18_IndexReadOnly ==
    [][/\ normalized' = normalized
       /\ retrieval' = retrieval
       /\ retrieval' = HybridTfidfIndex(normalized'.chunks)]_vars

\* a question answered by a handler that sorts by date, over a list that
\* does not stand in that order
C18_Witness ==
    /\ answer.status = "returned"
    /\ Len(out.facts) >= 2
    /\ \/ rq.intent = "condition"
          /\ normalized.conditions # _sort_by_date(normalized.conditions, "recorded")
       \/ rq.intent = "medication"
          /\ normalized.medications # _sort_by_date(normalized.medications, "effective")
       \/ rq.intent = "encounter"
          /\ normalized.encounters # _sort_by_date(normalized.encounters, "start")

\* the lines of the answer before the blank line and the Source line
StatementLines == SubSeq(AnswerLines, 1, Len(AnswerLines) - 2)

\* a_name of the first loop is not empty
IsNamed(a) == Strip(a.text) # ""

\* the (medication, allergy) positions whose medication name contains a
\* keyword of the allergy or the allergy name
ConflictPairs ==
    {p \in (DOMAIN normalized.medications) \X (DOMAIN normalized.allergies) :
        Conflicts(normalized.medications[p[1]], normalized.allergies[p[2]])}

ConflictLineOf(p) == AvoidLine(normalized.medications[p[1]], normalized.allergies[p[2]])

\* tier 1: every "Avoid X ... due to allergy to Y" line comes first, the
\* statements of the named allergies follow
AvoidLinesFirst(lines, k) ==
    /\ Len(lines) >= k
    /\ \A n \in 1..k : \E p \in ConflictPairs : lines[n] = ConflictLineOf(p)
    /\ \A p \in ConflictPairs : \E n \in 1..k : lines[n] = ConflictLineOf(p)
    /\ \A n \in (k + 1)..Len(lines) :
          \E a \in Range(normalized.allergies) : IsNamed(a) /\ lines[n] = AllergyStatement(a)
    /\ \A a \in Range(normalized.allergies) : IsNamed(a) => AllergyStatement(a) \in Range(lines)

\* tier 2: the "No current medications ..." statement, then one
\* recommendation per medication-related allergy; the Source line holds
\* every current medication source
NoConflictStatement(lines, related) ==
    /\ lines # <<>>
    /\ StartsWith(lines[1], "No current medications")
    /\ EndsWith(lines[1], " directly match recorded medication allergies.")
    /\ Tail(lines) = Map(related, AllergyStatement)
    /\ \A n \in DOMAIN related :
          StartsWith(lines[n + 1], "Avoid medications in the " \o Strip(related[n].text) \o " class")
    /\ \A m \in Range(CurrentMedications) : m.source \in Range(SourceList)

\* C19: with an allergy recorded, the avoid handler (1) lists the "Avoid X
\* ... due to allergy to Y" lines first and the allergy statements after
\* them when some medication name contains a keyword of some allergy,
\* (2) otherwise, when some allergy name is medication-related, gives the
\* "No current medications ..." statement, one recommendation per
\* medication-related allergy and every current medication source,
\* (3) otherwise returns what the allergy handler returns.
C19_ThreeTiers ==
    out.handler = "avoid_allergies" /\ normalized.allergies # <<>> =>
        IF ConflictPairs # {}
        THEN AvoidLinesFirst(StatementLines, Cardinality(ConflictPairs))
        ELSE IF \E a \in Range(normalized.allergies) : IsNamed(a) /\ is_med_related(a)
        THEN NoConflictStatement(StatementLines,
                                 SelectSeq(SelectSeq(normalized.allergies, IsNamed), is_med_related))
        ELSE HandlerOut(out.facts, out.answer) = handle_allergies(normalized)

\* no conflict, two medication-related allergies and a current medication
C19_Witness ==
    /\ out.handler = "avoid_allergies"
    /\ ConflictPairs = {}
    /\ Len(SelectSeq(SelectSeq(normalized.allergies, IsNamed), is_med_related)) >= 2
    /\ CurrentMedications # <<>>
    /\ Len(StatementLines) >= 3

\* the medications handle_medications selects for the entity: by reason,
\* else by text, else all of them
SelectedMedications(ent) ==
    LET meds == Range(normalized.medications)
        ByReason == {m \in meds : Contains(ent, Lower(m.reason))}
        ByText == {m \in meds : Contains(ent, Lower(m.text))}
    IN IF ent # "" /\ ByReason # {} THEN ByReason
       ELSE IF ent # "" /\ ByText # {} THEN ByText
       ELSE meds

\* the selection without its stopped and entered-in-error medications when
\* some other medication is in it, the whole selection otherwise
RemainingMedications(selection) ==
    IF \E m \in selection : IsCurrent(m) THEN {m \in selection : IsCurrent(m)} ELSE selection

DiabetesNamed(c) == Contains("diabetes", Lower(c.text)) \/ Contains("diabetic", Lower(c.text))

\* some condition of the corpus indicates diabetes, by name or by ICD-10 code
HasDiabetes == \E c \in Range(normalized.conditions) : is_diabetes(c)

\* C21: handle_diabetes_complications emits a condition that matches only a
\* complication keyword only if some condition indicates diabetes (by name,
\* or by an ICD-10 code starting with E10, E11 or E13); with no such
\* condition it returns no fact and "Not found in provided records."; every
\* diabetes-named condition is emitted.
C21_ComplicationsNeedDiabetes ==
    out.handler = "diabetes_complications" =>
        /\ \A c \in Range(normalized.conditions) :
              /\ DiabetesNamed(c) => Cardinality(FactsOf(c)) = 1
              /\ ~DiabetesNamed(c) /\ FactsOf(c) # {} =>
                    HasDiabetes /\ AnyIn(complication_keywords, Lower(c.text))
        /\ ~HasDiabetes => out.facts = <<>> /\ out.answer = NotFound

\* diabetes is indicated by an ICD-10 code only, and a condition matching
\* only a complication keyword is emitted
C21_Witness ==
    /\ out.handler = "diabetes_complications"
    /\ HasDiabetes
    /\ \A c \in Range(normalized.conditions) : ~DiabetesNamed(c)
    /\ \E c \in Range(normalized.conditions) :
          AnyIn(complication_keywords, Lower(c.text)) /\ FactsOf(c) # {}

\* the upper-cased interpretation codes of the observation that are flag codes
FlagsOf(o) ==
    {Upper(_parse_coding_triplet(o.interpretationCodings[n])[2]) : n \in DOMAIN o.interpretationCodings}
        \cap {"H", "HH", "L", "LL", "A", "AA"}

\* the classification by flag codes, H and HH before L and LL before the others
LabelByCodes(flags) ==
    IF flags \cap {"H", "HH"} # {} THEN "High"
    ELSE IF flags \cap {"L", "LL"} # {} THEN "Low"
    ELSE "Abnormal"

\* the classification by the keywords of the lower-cased interpretation text
LabelByText(t) ==
    IF Contains("high", t) \/ Contains("elevated", t) \/ Contains("above", t) THEN "High"
    ELSE IF Contains("low", t) \/ Contains("below", t) THEN "Low"
    ELSE IF Contains("normal", t) THEN "Normal"
    ELSE ""

\* the classification a line carries: " -- abnormal (<label>)", " -- normal" or none
CarriedLabel(line) ==
    IF Contains(" -- abnormal (High)", line) THEN "High"
    ELSE IF Contains(" -- abnormal (Low)", line) THEN "Low"
    ELSE IF Contains(" -- abnormal (Abnormal)", line) THEN "Abnormal"
    ELSE IF Contains(" -- normal", line) THEN "Normal"
    ELSE IF Contains(" -- ", line) THEN "other"
    ELSE ""

\* C22: the classification on a labs line is decided by the interpretation
\* codes when one of them is a flag code (H or HH: High; else L or LL: Low;
\* else Abnormal), by the keywords of the interpretation text only when
\* there is no flag code, and the line carries none when neither decides.
C22_CodesBeforeText ==
    out.handler = "labs" =>
        \A n \in DOMAIN out.facts :
            \A o \in Range(normalized.observations) :
                o.source = out.facts[n].source =>
                    CarriedLabel(out.facts[n].text)
                        = IF FlagsOf(o) # {} THEN LabelByCodes(FlagsOf(o))
                          ELSE LabelByText(Lower(o.interpretation))

\* a flag code and an interpretation text that disagree: the code decides
C22_Witness ==
    /\ out.handler = "labs"
    /\ Len(out.facts) = 1
    /\ \E o \in Range(normalized.observations) :
          /\ o.source = out.facts[1].source
          /\ FlagsOf(o) = {"L"}
          /\ LabelByText(Lower(o.interpretation)) = "High"
          /\ CarriedLabel(out.facts[1].text) = "Low"

\* the encounters the answer leaves out
OmittedEncounters ==
    {e \in Range(normalized.encounters) : \A n \in DOMAIN out.facts : out.facts[n].source # e.source}

\* the encounter a fact cites
EncounterOf(n) == normalized.encounters[PositionOf("encounter", out.facts[n].source)]

\* C23: handle_encounters returns min(2, number of encounters) facts, the
\* encounters with the latest start dates, most recent first; no encounter
\* left out has a later start date than one that is reported.
C23_LatestTwoEncounters ==
    out.handler = "encounter" =>
        /\ Len(out.facts) = Min(2, Len(normalized.encounters))
        /\ \A i, j \in DOMAIN out.facts : i # j => out.facts[i].source # out.facts[j].source
        /\ \A i, j \in DOMAIN out.facts :
              i < j => ~Later(EncounterOf(j).start, EncounterOf(i).start)
        /\ \A e \in OmittedEncounters : \A n \in DOMAIN out.facts :
              ~Later(e.start, EncounterOf(n).start)

\* the code references of a line: what stands between " (" and the closing ")"
RenderedRefs(line) ==
    IF Contains(" (", line) /\ EndsWith(line, ")")
    THEN SubSeq(line, 2 + CHOOSE i \in 1..Len(line) :
                            MatchAt(line, i, " (") /\ \A k \in 1..(i - 1) : ~MatchAt(line, k, " ("),
                Len(line) - 1)
    ELSE ""

\* "<label>: <code>, <code>" read back as [label, codes]
RenderedGroup(part) ==
    LET Read(kv) == [label |-> kv[1], codes |-> Map(Split(kv[2], ","), LStrip)]
    IN Read(Split(LStrip(part), ":"))

\* the groups of a rendered reference, separated by "; "
RenderedGroups(refs) == IF refs = "" THEN <<>> ELSE Map(Split(refs, ";"), RenderedGroup)

\* the non-empty codes of the codings of a code system, each once, in coding order
CodesOf(codings, label) ==
    LET OfSystem(c) == _coding_label(_parse_coding_triplet(c)[1]) = label
        Code(c) == _parse_coding_triplet(c)[2]
    IN Uniq(Map(SelectSeq(codings, OfSystem), Code), <<>>)

SystemLabels == {"LOINC", "SNOMED", "ICD-10", "ICD-9", "RxNorm", "CPT"}

\* the preferred systems of the handler
PreferOf(handler) ==
    IF handler = "condition" THEN <<"ICD-10", "SNOMED", "ICD-9">> ELSE <<"SNOMED", "RxNorm">>

\* the groups list each recognized system with a code once, with its first
\* three distinct codes, the preferred systems first in the preferred order
RefsAsClaimed(groups, codings, prefer) ==
    /\ \A k \in SystemLabels :
          Cardinality({n \in DOMAIN groups : groups[n].label = k})
              = IF CodesOf(codings, k) # <<>> THEN 1 ELSE 0
    /\ \A n \in DOMAIN groups :
          /\ groups[n].label \in SystemLabels
          /\ Len(groups[n].codes) <= 3
          /\ groups[n].codes = SubSeq(CodesOf(codings, groups[n].label), 1,
                                      Min(3, Len(CodesOf(codings, groups[n].label))))
    /\ \A i, j \in DOMAIN groups :
          i < j =>
              /\ groups[j].label \in Range(prefer) => groups[i].label \in Range(prefer)
              /\ groups[i].label \in Range(prefer) /\ groups[j].label \in Range(prefer) =>
                    \E a, b \in DOMAIN prefer :
                        a < b /\ prefer[a] = groups[i].label /\ prefer[b] = groups[j].label

\* C24: the code references on a line list, for each recognized code system
\* with a code in the row's codings, its first three distinct codes in coding
\* order, the systems of the caller's preferred list first and in that
\* list's order, every other recognized system once after them; codings
\* with an empty code or an unrecognized system are left out.
C24_CodeRefsPerSystem ==
    out.handler \in {"condition", "allergy"} /\ Len(out.facts) = 1 =>
        \A row \in Range(IF out.handler = "condition" THEN normalized.conditions
                          ELSE normalized.allergies) :
            RefsAsClaimed(RenderedGroups(RenderedRefs(out.facts[1].text)), row.codings,
                          PreferOf(out.handler))

\* four distinct codes of a preferred system after a code of another system:
\* three of them are rendered, before the other system
C24_Witness ==
    /\ out.handler = "allergy"
    /\ Len(out.facts) = 1
    /\ \E row \in Range(normalized.allergies) :
          /\ Len(CodesOf(row.codings, "ICD-10")) = 3
          /\ CodesOf(row.codings, "SNOMED") # <<>>
          /\ _coding_label(_parse_coding_triplet(row.codings[1])[1]) = "ICD-10"
    /\ StartsWith(RenderedRefs(out.facts[1].text), "SNOMED: 1; ICD-10: ")

\* C25: whatever the intent and the corpus, the sources on the "Source:"
\* line of the deterministic answer are the citations of the Answer (the
\* sources of the emitted facts).
C25_SourceLineIsCitations ==
    Returned /\ out.answer # NotFound => Range(SourceList) = Range(answer.citations)

\* C26: in the conflict tier of the avoid handler each fact whose text is an
\* "Avoid X ... due to allergy to Y" line has the source of the medication X
\* of that line, however many conflicts there are.
C26_AvoidFactCitesItsMedication ==
    out.handler = "avoid_allergies" =>
        \A n \in DOMAIN out.facts :
            (\E p \in ConflictPairs : out.facts[n].text = ConflictLineOf(p)) =>
                \E p \in ConflictPairs :
                    /\ out.facts[n].text = ConflictLineOf(p)
                    /\ out.facts[n].source = normalized.medications[p[1]].source

\* C27: for every handler and corpus the facts are empty exactly when the
\* answer is "Not found in provided records.", and when there are facts the
\* text of each is a statement line of the answer.
C27_FactsAndLines ==
    out.handler # "" =>
        /\ out.facts = <<>> <=> out.answer = NotFound
        /\ out.facts # <<>> =>
              \A n \in DOMAIN out.facts : out.facts[n].text \in Range(StatementLines)

\* the text holds a citation token: a letter, "/" and a letter, digit, "-" or "."
HasCitationToken(text) ==
    \E i \in 1..(Len(text) - 2) :
        IsAlpha(Ch(text, i)) /\ Ch(text, i + 1) = "/" /\ IsIdChar(Ch(text, i + 2))

\* C28: a generated text with "Source:" and no citation token is never
\* accepted, whether the deterministic citations are empty or not:
\* answer_query returns used_llm=false and the deterministic answer; hence
\* used_llm=true implies a citation token in the answer.
C28_UncitedTextRejected ==
    /\ (Attempted /\ ~llm.raised /\ Contains("Source:", llm.text) /\ ~HasCitationToken(llm.text)) =>
          (Returned /\ ~answer.used_llm /\ answer.answer = out.answer)
    /\ (Returned /\ answer.used_llm) => HasCitationToken(answer.answer)

\* a text with "Source:" and no citation token, generated for a question
\* without deterministic citations
C28_Witness ==
    /\ Generated
    /\ ~llm.raised
    /\ Contains("Source:", llm.text)
    /\ ~HasCitationToken(llm.text)
    /\ answer.citations = <<>>
    /\ answer.intent = "fallback"
    /\ ~answer.used_llm

====
